---------------------------- MODULE Spec2Model ----------------------------
(***************************************************************************)
(* DEEPWELL: a remote-filesystem server.  This module models the           *)
(* per-request pipeline of the server (server/request.go,                  *)
(* server/commands.go), the drive sandbox (drive/drive.go), the            *)
(* authentication table (auth/auth.go) and the wire protocol, at the       *)
(* level of bytes on the connection.                                       *)
(*                                                                         *)
(* A byte is a one-character string; a Go string or []byte is a sequence   *)
(* of bytes.  NUL stands for the zero byte of a freshly made buffer.       *)
(***************************************************************************)
EXTENDS Integers, Sequences, FiniteSets, TLC

(***************************************************************************)
(* protocol/protocol.go                                                    *)
(***************************************************************************)
Header == <<"D", "E", "E", "P", "W", "E", "L", "L", "-", "v", "0">>

ChunkSize == 4086

\* bufio's defaultBufSize: the size of the buffer bufio.NewReader and
\* bufio.NewWriter allocate (request.go:44, drive.go Read and Write).
BufSize == 4096

NL == "\n"

NUL == "NUL"

(***************************************************************************)
(* Go string helpers used by the code.                                     *)
(***************************************************************************)
\* the value v under the name the operator F gives it, as a Go short
\* variable declaration names the result of a call: v is computed once
Bind(v, F(_)) == CHOOSE y \in {F(x) : x \in {v}} : TRUE

Min(a, b) == IF a < b THEN a ELSE b

Max(a, b) == IF a < b THEN b ELSE a

\* s[from:to] of Go, for 0 <= from <= to <= len(s)
Slice(s, from, to) == SubSeq(s, from + 1, to)

Drop(s, n) == SubSeq(s, n + 1, Len(s))

Take(s, n) == SubSeq(s, 1, n)

\* strings.HasPrefix
HasPrefix(s, p) == Len(p) <= Len(s) /\ Take(s, Len(p)) = p

\* strings.Contains
Contains(s, sub) ==
    \E i \in 0..(Len(s) - Len(sub)) : Slice(s, i, i + Len(sub)) = sub

UpperCase == <<"A", "B", "C", "D", "E", "F", "G", "H", "I", "J", "K", "L", "M",
               "N", "O", "P", "Q", "R", "S", "T", "U", "V", "W", "X", "Y", "Z">>

LowerCase == <<"a", "b", "c", "d", "e", "f", "g", "h", "i", "j", "k", "l", "m",
               "n", "o", "p", "q", "r", "s", "t", "u", "v", "w", "x", "y", "z">>

lower(c) ==
    IF \E i \in 1..26 : UpperCase[i] = c
    THEN LowerCase[CHOOSE i \in 1..26 : UpperCase[i] = c]
    ELSE c

\* strings.ToLower
ToLower(s) == [i \in 1..Len(s) |-> lower(s[i])]

\* strings.Join(list, sep)
RECURSIVE JoinStrings(_, _)
JoinStrings(list, sep) ==
    IF Len(list) = 0 THEN <<>>
    ELSE IF Len(list) = 1 THEN list[1]
    ELSE list[1] \o sep \o JoinStrings(Tail(list), sep)

(***************************************************************************)
(* strconv: FormatInt / Itoa (base 10) and ParseInt.                       *)
(***************************************************************************)
Digits == <<"0", "1", "2", "3", "4", "5", "6", "7", "8", "9",
            "a", "b", "c", "d", "e", "f">>

RECURSIVE FormatNat(_)
FormatNat(n) ==
    IF n < 10 THEN <<Digits[n + 1]>>
    ELSE Append(FormatNat(n \div 10), Digits[(n % 10) + 1])

\* strconv.FormatInt(n, 10) and strconv.Itoa(n)
FormatInt(n) == IF n < 0 THEN <<"-">> \o FormatNat(0 - n) ELSE FormatNat(n)

\* the value of a digit character, 99 for a character that is no digit
DigitVal(c) ==
    IF \E i \in 1..16 : Digits[i] = lower(c)
    THEN (CHOOSE i \in 1..16 : Digits[i] = lower(c)) - 1
    ELSE 99

IsBasePrefix(s) ==
    Len(s) >= 2 /\ s[1] = "0" /\ lower(s[2]) \in {"b", "o", "x"}

\* strconv.underscoreOK: underscores only between digits (the base prefix
\* counts as a digit).  prev is "^" at the start, "0" after a digit, "_"
\* after an underscore, "!" after anything else.
RECURSIVE UnderscoreScan(_, _, _)
UnderscoreScan(s, prev, hex) ==
    IF Len(s) = 0 THEN prev # "_"
    ELSE LET c == s[1] IN
         IF DigitVal(c) < 10 \/ (hex /\ DigitVal(c) < 16)
         THEN UnderscoreScan(Tail(s), "0", hex)
         ELSE IF c = "_"
         THEN prev = "0" /\ UnderscoreScan(Tail(s), "_", hex)
         ELSE prev # "_" /\ UnderscoreScan(Tail(s), "!", hex)

UnderscoreOK(s0) ==
    LET s == IF Len(s0) >= 1 /\ s0[1] \in {"+", "-"} THEN Tail(s0) ELSE s0
    IN  IF IsBasePrefix(s)
        THEN UnderscoreScan(Drop(s, 2), "0", lower(s[2]) = "x")
        ELSE UnderscoreScan(s, "^", FALSE)

\* the digit loop of strconv.ParseUint: the value, or -1 for a syntax error.
\* The range error of a number beyond 64 bits is not modelled: the length
\* lines of the model are far shorter.
RECURSIVE ParseDigits(_, _, _, _)
ParseDigits(s, base, base0, acc) ==
    IF Len(s) = 0 THEN acc
    ELSE IF s[1] = "_" /\ base0 THEN ParseDigits(Tail(s), base, base0, acc)
    ELSE IF DigitVal(s[1]) >= base THEN -1
    ELSE ParseDigits(Tail(s), base, base0, acc * base + DigitVal(s[1]))

\* strconv.ParseUint(s, base, 64) for base 10 and base 0
ParseUint(s, base) ==
    IF Len(s) = 0 THEN -1
    ELSE LET base0 == (base = 0)
             pre   == base0 /\ s[1] = "0"
             b     == IF ~pre THEN (IF base0 THEN 10 ELSE base)
                      ELSE IF Len(s) >= 3 /\ lower(s[2]) = "b" THEN 2
                      ELSE IF Len(s) >= 3 /\ lower(s[2]) = "o" THEN 8
                      ELSE IF Len(s) >= 3 /\ lower(s[2]) = "x" THEN 16
                      ELSE 8
             rest  == IF ~pre THEN s
                      ELSE IF Len(s) >= 3 /\ lower(s[2]) \in {"b", "o", "x"}
                      THEN Drop(s, 2)
                      ELSE Tail(s)
         IN  Bind(ParseDigits(rest, b, base0, 0), LAMBDA v :
             IF v >= 0 /\ base0 /\ Contains(s, <<"_">>) /\ ~UnderscoreOK(s)
             THEN -1 ELSE v)

\* strconv.ParseInt(s, base, 64): [ok, val]
ParseInt(s, base) ==
    IF Len(s) = 0 THEN [ok |-> FALSE, val |-> 0]
    ELSE Bind(ParseUint(IF s[1] \in {"+", "-"} THEN Tail(s) ELSE s, base), LAMBDA un :
         IF un < 0 THEN [ok |-> FALSE, val |-> 0]
         ELSE [ok |-> TRUE, val |-> IF s[1] = "-" THEN 0 - un ELSE un])

(***************************************************************************)
(* path/filepath (Unix): Clean and Join, as drive.getHostPath calls them.  *)
(***************************************************************************)
Sep == "/"

\* the length of out after a ".." element backtracks: out.w--, then back
\* to the previous separator, never below dotdot
RECURSIVE Backtrack(_, _, _)
Backtrack(out, w, dotdot) ==
    IF w > dotdot /\ out[w + 1] # Sep THEN Backtrack(out, w - 1, dotdot) ELSE w

\* the end of the path element starting at index r (0-based)
RECURSIVE ElemEnd(_, _)
ElemEnd(path, r) ==
    IF r < Len(path) /\ path[r + 1] # Sep THEN ElemEnd(path, r + 1) ELSE r

\* the loop of filepath.Clean: r is the next byte of path to process, out
\* the output so far, dotdot the index in out where ".." must stop
RECURSIVE CleanLoop(_, _, _, _, _)
CleanLoop(path, rooted, r, out, dotdot) ==
    LET n == Len(path) IN
    IF r >= n THEN out
    ELSE IF path[r + 1] = Sep
    THEN CleanLoop(path, rooted, r + 1, out, dotdot)
    ELSE IF path[r + 1] = "." /\ (r + 1 = n \/ path[r + 2] = Sep)
    THEN CleanLoop(path, rooted, r + 1, out, dotdot)
    ELSE IF path[r + 1] = "." /\ path[r + 2] = "."
            /\ (r + 2 = n \/ path[r + 3] = Sep)
    THEN IF Len(out) > dotdot
         THEN CleanLoop(path, rooted, r + 2,
                        Take(out, Backtrack(out, Len(out) - 1, dotdot)), dotdot)
         ELSE IF ~rooted
         THEN LET o2 == (IF Len(out) > 0 THEN Append(out, Sep) ELSE out)
                            \o <<".", ".">>
              IN  CleanLoop(path, rooted, r + 2, o2, Len(o2))
         ELSE CleanLoop(path, rooted, r + 2, out, dotdot)
    ELSE LET o2 == IF (rooted /\ Len(out) # 1) \/ (~rooted /\ Len(out) # 0)
                   THEN Append(out, Sep) ELSE out
             e  == ElemEnd(path, r)
         IN  CleanLoop(path, rooted, e, o2 \o Slice(path, r, e), dotdot)

\* filepath.Clean
Clean(path) ==
    IF Len(path) = 0 THEN <<".">>
    ELSE LET rooted == path[1] = Sep
             out    == IF rooted
                       THEN CleanLoop(path, TRUE, 1, <<Sep>>, 1)
                       ELSE CleanLoop(path, FALSE, 0, <<>>, 0)
         IN  IF Len(out) = 0 THEN <<".">> ELSE out

\* filepath.Join(a, b)
Join(a, b) ==
    IF Len(a) # 0 THEN Clean(a \o <<Sep>> \o b)
    ELSE IF Len(b) # 0 THEN Clean(b)
    ELSE <<>>

(***************************************************************************)
(* drive/drive.go: path resolution.                                        *)
(***************************************************************************)
E_PathInvalid == <<"p", "a", "t", "h", " ", "i", "s", " ", "i", "n", "v", "a", "l", "i", "d", ":", " ">>

\* getHostPath without its test for "..": the fault the containment of the
\* host paths guards against
getHostPath_Unchecked(root, path) ==
    [ok |-> TRUE, path |-> Join(root, Clean(path)), err |-> <<>>]

\* drive.getHostPath: [ok, path] or [ok, err]
getHostPath(root, path) ==
    Bind(Clean(path), LAMBDA cleanPath :
    IF Contains(cleanPath, <<".", ".">>)
    THEN [ok |-> FALSE, path |-> <<>>, err |-> E_PathInvalid \o path]
    ELSE [ok |-> TRUE, path |-> Join(root, cleanPath), err |-> <<>>])

(***************************************************************************)
(* The host filesystem the drive operations act on (package os).  A        *)
(* filesystem is a function from the absolute, clean host paths that       *)
(* exist to their entries; "/" always exists and is a directory.  An       *)
(* entry is a directory or a regular file with its bytes and its mode:     *)
(* "rw", "ro" (opening it for writing fails) or "none" (opening it at all  *)
(* fails; stat succeeds).                                                  *)
(***************************************************************************)
RootDir == <<Sep>>

DirEntry == [dir |-> TRUE, data |-> <<>>, mode |-> "rw"]

FileEntry(data, mode) == [dir |-> FALSE, data |-> data, mode |-> mode]

Exists(f, p) == p = RootDir \/ p \in DOMAIN f

IsDirAt(f, p) == p = RootDir \/ (p \in DOMAIN f /\ f[p].dir)

LastSep(p) == CHOOSE i \in 1..Len(p) : p[i] = Sep /\ \A j \in (i + 1)..Len(p) : p[j] # Sep

\* filepath.Dir of an absolute clean path
ParentOf(p) == IF LastSep(p) = 1 THEN RootDir ELSE Take(p, LastSep(p) - 1)

\* filepath.Base of an absolute clean path
BaseName(p) == Drop(p, LastSep(p))

Children(f, p) == {q \in DOMAIN f : q # p /\ ParentOf(q) = p}

\* q is p or lies below p
Within(p, q) == q = p \/ p = RootDir \/ HasPrefix(q, Append(p, Sep))

Put(f, p, e) == [q \in DOMAIN f \cup {p} |-> IF q = p THEN e ELSE f[q]]

Del(f, p) == [q \in DOMAIN f \ {p} |-> f[q]]

E_Perm == <<":", " ", "p", "e", "r", "m", "i", "s", "s", "i", "o", "n", " ", "d", "e", "n", "i", "e", "d">>

E_NoEnt == <<":", " ", "n", "o", " ", "s", "u", "c", "h", " ", "f", "i", "l", "e", " ", "o", "r", " ", "d", "i", "r", "e", "c", "t", "o", "r", "y">>

E_Exist == <<":", " ", "f", "i", "l", "e", " ", "e", "x", "i", "s", "t", "s">>

E_NotEmpty == <<":", " ", "d", "i", "r", "e", "c", "t", "o", "r", "y", " ", "n", "o", "t", " ", "e", "m", "p", "t", "y">>

E_IsDir == <<":", " ", "i", "s", " ", "a", " ", "d", "i", "r", "e", "c", "t", "o", "r", "y">>

E_NotDir == <<":", " ", "n", "o", "t", " ", "a", " ", "d", "i", "r", "e", "c", "t", "o", "r", "y">>

E_Inval == <<":", " ", "i", "n", "v", "a", "l", "i", "d", " ", "a", "r", "g", "u", "m", "e", "n", "t">>

Op_open == <<"o", "p", "e", "n", " ">>

Op_mkdir == <<"m", "k", "d", "i", "r", " ">>

Op_stat == <<"s", "t", "a", "t", " ">>

Op_remove == <<"r", "e", "m", "o", "v", "e", " ">>

Op_rename == <<"r", "e", "n", "a", "m", "e", " ">>

Op_readdir == <<"r", "e", "a", "d", "d", "i", "r", "e", "n", "t", " ">>

\* the result of an os call: the filesystem after it and, on failure, the
\* text of the *PathError (or *LinkError) it returns
OsOk(f) == [ok |-> TRUE, fs |-> f, err |-> <<>>]

OsErr(f, op, p, why) == [ok |-> FALSE, fs |-> f, err |-> op \o p \o why]

\* why a path cannot be entered through its parent directory, <<>> if it can
ParentErr(f, p) ==
    IF IsDirAt(f, ParentOf(p)) THEN <<>>
    ELSE IF Exists(f, ParentOf(p)) THEN E_NotDir
    ELSE E_NoEnt

\* os.Create without O_TRUNC: the fault of a create that leaves the
\* contents of a file that exists
osCreate_NoTrunc(f, p) ==
    IF IsDirAt(f, p) THEN OsErr(f, Op_open, p, E_IsDir)
    ELSE IF ParentErr(f, p) # <<>> THEN OsErr(f, Op_open, p, ParentErr(f, p))
    ELSE IF p \in DOMAIN f
    THEN IF f[p].mode # "rw" THEN OsErr(f, Op_open, p, E_Perm)
         ELSE OsOk(f)
    ELSE OsOk(Put(f, p, FileEntry(<<>>, "rw")))

\* os.Create: open for reading and writing, create, truncate
osCreate(f, p) ==
    IF IsDirAt(f, p) THEN OsErr(f, Op_open, p, E_IsDir)
    ELSE IF ParentErr(f, p) # <<>> THEN OsErr(f, Op_open, p, ParentErr(f, p))
    ELSE IF p \in DOMAIN f
    THEN IF f[p].mode # "rw" THEN OsErr(f, Op_open, p, E_Perm)
         ELSE OsOk(Put(f, p, FileEntry(<<>>, "rw")))
    ELSE OsOk(Put(f, p, FileEntry(<<>>, "rw")))

\* os.OpenFile(p, O_RDONLY, ...)
osOpenRead(f, p) ==
    IF ~Exists(f, p) THEN OsErr(f, Op_open, p, ParentErr(f, p) \o
                                   (IF ParentErr(f, p) = <<>> THEN E_NoEnt ELSE <<>>))
    ELSE IF ~IsDirAt(f, p) /\ f[p].mode = "none" THEN OsErr(f, Op_open, p, E_Perm)
    ELSE OsOk(f)

\* os.Mkdir
osMkdir(f, p) ==
    IF Exists(f, p) THEN OsErr(f, Op_mkdir, p, E_Exist)
    ELSE IF ParentErr(f, p) # <<>> THEN OsErr(f, Op_mkdir, p, ParentErr(f, p))
    ELSE OsOk(Put(f, p, DirEntry))

\* os.Stat
osStat(f, p) ==
    IF Exists(f, p) THEN OsOk(f)
    ELSE IF ParentErr(f, p) = E_NotDir THEN OsErr(f, Op_stat, p, E_NotDir)
    ELSE OsErr(f, Op_stat, p, E_NoEnt)

\* the FileInfo os.Stat returns for an existing path
StatInfo(f, p) ==
    IF IsDirAt(f, p) THEN [dir |-> TRUE, size |-> 0]
    ELSE [dir |-> FALSE, size |-> Len(f[p].data)]

\* os.Remove
osRemove(f, p) ==
    IF ~Exists(f, p) THEN OsErr(f, Op_remove, p, E_NoEnt)
    ELSE IF p = RootDir THEN OsErr(f, Op_remove, p, E_Perm)
    ELSE IF Children(f, p) # {} THEN OsErr(f, Op_remove, p, E_NotEmpty)
    ELSE OsOk(Del(f, p))

\* os.Rename(a, b): the entry at a, with everything below it, moves to b
osRename(f, a, b) ==
    LET lerr(why) == OsErr(f, Op_rename, a \o <<" ">> \o b, why) IN
    IF ~Exists(f, a) THEN lerr(E_NoEnt)
    ELSE IF a = b THEN OsOk(f)
    ELSE IF a = RootDir \/ b = RootDir THEN lerr(E_Perm)
    ELSE IF ParentErr(f, b) # <<>> THEN lerr(ParentErr(f, b))
    ELSE IF Within(a, b) THEN lerr(E_Inval)
    ELSE IF IsDirAt(f, a) /\ Exists(f, b) /\ ~IsDirAt(f, b) THEN lerr(E_NotDir)
    ELSE IF ~IsDirAt(f, a) /\ IsDirAt(f, b) THEN lerr(E_Exist)
    ELSE IF IsDirAt(f, b) /\ Children(f, b) # {} THEN lerr(E_NotEmpty)
    ELSE LET moved == {q \in DOMAIN f : Within(a, q)}
             dest(q) == b \o Drop(q, Len(a))
             keep  == (DOMAIN f \ moved) \ {b}
         IN  OsOk([q \in keep \cup {dest(m) : m \in moved} |->
                     IF q \in keep THEN f[q]
                     ELSE f[CHOOSE m \in moved : dest(m) = q]])

(***************************************************************************)
(* The connection as the server reads it (conn/conn.go, bufio.Reader).     *)
(*                                                                         *)
(* A connection c has the bytes the client sends, c.wire, and the set      *)
(* c.cuts of positions at which the transport ends a read: one call of     *)
(* Conn.Read returns the bytes up to the next cut, at most as many as the  *)
(* caller's buffer holds.  After the last byte of c.wire the client waits  *)
(* for the reply or has closed: Conn.Read then fails (deadline or EOF).    *)
(* The reader state rd is [pos, w]: the handler has consumed c.wire up to  *)
(* pos, and the bufio.Reader has fetched it up to w (its buffer holds      *)
(* pos+1..w).                                                              *)
(***************************************************************************)
\* Conn.Read into a buffer of max bytes, with w bytes fetched before: the
\* number of bytes fetched after it (only called when w < Len(c.wire))
ConnRead(c, w, max) ==
    LET stops == {x \in c.cuts : x > w} \cup {Len(c.wire), w + max}
    IN  CHOOSE x \in stops : \A y \in stops : x <= y

\* Conn.Write of the bytes out, one call after the other: the bytes that
\* reach the peer.  c.reads is {} when the peer reads all it is sent and
\* {n} when it stops reading after n bytes: the call that goes beyond them
\* fails at its deadline.
PeerReads(c, out) ==
    IF c.reads = {} THEN out
    ELSE Take(out, Min(Len(out), CHOOSE n \in c.reads : TRUE))

\* the position of the first newline in c.wire[from+1..to], 0 if none
FirstNL(c, from, to) ==
    LET at == {j \in (from + 1)..to : c.wire[j] = NL}
    IN  IF at = {} THEN 0 ELSE CHOOSE j \in at : \A k \in at : j <= k

\* bufio.Reader.ReadString('\n'): r is b.r as a position of c.wire.  When
\* the buffer is full without a newline, ReadString sets the buffer aside
\* and goes on reading.
RECURSIVE ReadString(_, _, _, _)
ReadString(c, start, r, w) ==
    Bind(FirstNL(c, r, w), LAMBDA nl :
    IF nl # 0
    THEN [ok |-> TRUE, str |-> SubSeq(c.wire, start + 1, nl),
          rd |-> [pos |-> nl, w |-> w]]
    ELSE IF w - r >= BufSize THEN ReadString(c, start, w, w)
    ELSE IF w >= Len(c.wire)
    THEN [ok |-> FALSE, str |-> <<>>, rd |-> [pos |-> w, w |-> w]]
    ELSE ReadString(c, start, r, ConnRead(c, w, BufSize - (w - r))))

\* request.getString: a line without its newline
getString(c, rd) ==
    Bind(ReadString(c, rd.pos, rd.pos, rd.w), LAMBDA got :
    IF got.ok
    THEN [ok |-> TRUE, str |-> Take(got.str, Len(got.str) - 1), rd |-> got.rd]
    ELSE [ok |-> FALSE, str |-> <<>>, rd |-> got.rd])

\* bufio.Reader.Read(p) with len(p) = n: [ok, n, rd]; the bytes read are
\* c.wire[rd.pos+1 .. rd.pos+n]
ReaderRead(c, rd, n) ==
    IF n = 0 THEN [ok |-> TRUE, n |-> 0, rd |-> rd]
    ELSE IF rd.pos = rd.w
    THEN IF rd.w >= Len(c.wire) THEN [ok |-> FALSE, n |-> 0, rd |-> rd]
         ELSE Bind(ConnRead(c, rd.w, IF n >= BufSize THEN n ELSE BufSize), LAMBDA w2 :
              [ok |-> TRUE, n |-> Min(n, w2 - rd.pos),
               rd |-> [pos |-> rd.pos + Min(n, w2 - rd.pos), w |-> w2]])
    ELSE [ok |-> TRUE, n |-> Min(n, rd.w - rd.pos),
          rd |-> [pos |-> rd.pos + Min(n, rd.w - rd.pos), w |-> rd.w]]

\* the loop of request.consume: n bytes of len drained so far
RECURSIVE consumeLoop(_, _, _, _)
consumeLoop(c, rd, len, n) ==
    IF len - n < ChunkSize
    THEN IF len - n < 0 THEN [st |-> "panic", rd |-> rd]
         ELSE Bind(ReaderRead(c, rd, len - n), LAMBDA got :
              [st |-> IF got.ok THEN "ok" ELSE "err", rd |-> got.rd])
    ELSE Bind(ReaderRead(c, rd, ChunkSize), LAMBDA got :
         IF ~got.ok THEN [st |-> "err", rd |-> got.rd]
         ELSE consumeLoop(c, got.rd, len, n + got.n))

\* request.consume (server): st is "ok", "err" (an error is returned) or
\* "panic" (make([]byte, len-n) with a negative length)
consume(c, rd) ==
    Bind(getString(c, rd), LAMBDA line :
    IF ~line.ok THEN [st |-> "err", rd |-> line.rd] ELSE
    Bind(ParseInt(line.str, 10), LAMBDA len :
    IF ~len.ok THEN [st |-> "err", rd |-> line.rd]
    ELSE consumeLoop(c, line.rd, len.val, 0)))

(***************************************************************************)
(* drive/drive.go: the drive operations.  root is the drive's d.path, f    *)
(* the host filesystem.  Every result has ok, the filesystem fs after the  *)
(* call, the error text err, and leak, the number of file handles the      *)
(* call opened and did not close.                                          *)
(***************************************************************************)
DrvErr(f, err) == [ok |-> FALSE, fs |-> f, err |-> err, leak |-> 0, hp |-> <<>>]

\* drive.Create
drive_Create(root, f, path) ==
    Bind(getHostPath(root, path), LAMBDA h :
    IF ~h.ok THEN DrvErr(f, h.err) ELSE
    Bind(osCreate(f, h.path), LAMBDA r :
    [ok |-> r.ok, fs |-> r.fs, err |-> r.err,
     leak |-> IF r.ok THEN 1 ELSE 0, hp |-> <<h.path>>]))

\* drive.CreateDirectory
drive_CreateDirectory(root, f, path) ==
    Bind(getHostPath(root, path), LAMBDA h :
    IF ~h.ok THEN DrvErr(f, h.err) ELSE
    Bind(osMkdir(f, h.path), LAMBDA r :
    [ok |-> r.ok, fs |-> r.fs, err |-> r.err, leak |-> 0, hp |-> <<h.path>>]))

\* drive.Stat: info is the FileInfo when ok
drive_Stat(root, f, path) ==
    Bind(getHostPath(root, path), LAMBDA h :
    IF ~h.ok
    THEN [ok |-> FALSE, err |-> h.err, info |-> [dir |-> FALSE, size |-> 0],
          hp |-> <<>>] ELSE
    Bind(osStat(f, h.path), LAMBDA r :
    IF r.ok
    THEN [ok |-> TRUE, err |-> <<>>, info |-> StatInfo(f, h.path),
          hp |-> <<h.path>>]
    ELSE [ok |-> FALSE, err |-> r.err, info |-> [dir |-> FALSE, size |-> 0],
          hp |-> <<h.path>>]))

\* the loop of drive.Read over a bufio.Reader on the file: the reader has
\* handed out data[1..r] and fetched data[1..w]; out is what the stream got.
\* reader.Read(buf) returns what the buffer holds, at most ChunkSize bytes,
\* and fills the empty buffer with one read of the file (ChunkSize < BufSize).
RECURSIVE ReadFileLoop(_, _, _, _)
ReadFileLoop(data, r, w, out) ==
    Bind(IF r = w THEN Min(Len(data), w + BufSize) ELSE w, LAMBDA w2 :
    Bind(Min(ChunkSize, w2 - r), LAMBDA n :
    IF n = 0 THEN out
    ELSE IF n < ChunkSize THEN out \o SubSeq(data, r + 1, r + n)
    ELSE ReadFileLoop(data, r + n, w2, out \o SubSeq(data, r + 1, r + n))))

\* drive.Read: out is what was written to the stream
drive_Read(root, f, path) ==
    Bind(getHostPath(root, path), LAMBDA h :
    IF ~h.ok
    THEN [ok |-> FALSE, err |-> h.err, out |-> <<>>, leak |-> 0, hp |-> <<>>] ELSE
    Bind(osOpenRead(f, h.path), LAMBDA r :
    IF ~r.ok
    THEN [ok |-> FALSE, err |-> r.err, out |-> <<>>, leak |-> 0,
          hp |-> <<h.path>>]
    ELSE IF IsDirAt(f, h.path)
    THEN [ok |-> FALSE, err |-> <<"r", "e", "a", "d", " ">> \o h.path \o E_IsDir,
          out |-> <<>>, leak |-> 0, hp |-> <<h.path>>]
    ELSE [ok |-> TRUE, err |-> <<>>, leak |-> 0, hp |-> <<h.path>>,
          out |-> ReadFileLoop(f[h.path].data, 0, 0, <<>>)]))

\* the ASCII order of the bytes of the model's names
AsciiOrder == <<NUL, NL, " ", "+", "-", ".", "/", "0", "1", "2", "3", "4", "5",
                "6", "7", "8", "9", ":"
               >> \o UpperCase \o <<"_">> \o LowerCase

Ord(ch) == CHOOSE i \in 1..Len(AsciiOrder) : AsciiOrder[i] = ch

RECURSIVE LessStr(_, _)
LessStr(a, b) ==
    IF Len(b) = 0 THEN FALSE
    ELSE IF Len(a) = 0 THEN TRUE
    ELSE IF a[1] # b[1] THEN Ord(a[1]) < Ord(b[1])
    ELSE LessStr(Tail(a), Tail(b))

\* the host paths of a set, sorted by file name
RECURSIVE SortByName(_)
SortByName(ps) ==
    IF ps = {} THEN <<>>
    ELSE Bind(CHOOSE p \in ps :
                \A q \in ps \ {p} : LessStr(BaseName(p), BaseName(q)), LAMBDA m :
         <<m>> \o SortByName(ps \ {m}))

\* drive.ReadDir: items are the DirEntry values, sorted by name
drive_ReadDir(root, f, path) ==
    Bind(getHostPath(root, path), LAMBDA h :
    IF ~h.ok THEN [ok |-> FALSE, err |-> h.err, items |-> <<>>, hp |-> <<>>]
    ELSE IF ~Exists(f, h.path)
    THEN [ok |-> FALSE, err |-> Op_open \o h.path \o E_NoEnt, items |-> <<>>,
          hp |-> <<h.path>>]
    ELSE IF ~IsDirAt(f, h.path)
    THEN [ok |-> FALSE, err |-> Op_readdir \o h.path \o E_NotDir, items |-> <<>>,
          hp |-> <<h.path>>] ELSE
    Bind(SortByName(Children(f, h.path)), LAMBDA sorted :
    [ok |-> TRUE, err |-> <<>>, hp |-> <<h.path>>,
     items |-> [i \in 1..Len(sorted) |->
                  [name |-> BaseName(sorted[i]), dir |-> f[sorted[i]].dir]]]))

\* drive.Remove
drive_Remove(root, f, path) ==
    Bind(getHostPath(root, path), LAMBDA h :
    IF ~h.ok THEN DrvErr(f, h.err) ELSE
    Bind(osRemove(f, h.path), LAMBDA r :
    [ok |-> r.ok, fs |-> r.fs, err |-> r.err, leak |-> 0, hp |-> <<h.path>>]))

\* drive.Move resolving the destination without looking at the error of
\* getHostPath: the fault of validating the source path only
drive_Move_SrcOnly(root, f, src, dest) ==
    Bind(getHostPath(root, src), LAMBDA hs :
    IF ~hs.ok THEN DrvErr(f, hs.err) ELSE
    Bind(Join(root, Clean(dest)), LAMBDA hd :
    Bind(osRename(f, hs.path, hd), LAMBDA r :
    [ok |-> r.ok, fs |-> r.fs, err |-> r.err, leak |-> 0,
     hp |-> <<hs.path, hd>>])))

\* drive.Move
drive_Move(root, f, src, dest) ==
    Bind(getHostPath(root, src), LAMBDA hs :
    IF ~hs.ok THEN DrvErr(f, hs.err) ELSE
    Bind(getHostPath(root, dest), LAMBDA hd :
    IF ~hd.ok THEN DrvErr(f, hd.err) ELSE
    Bind(osRename(f, hs.path, hd.path), LAMBDA r :
    [ok |-> r.ok, fs |-> r.fs, err |-> r.err, leak |-> 0,
     hp |-> <<hs.path, hd.path>>])))

\* bufio.Writer.Write(p) on a writer ws = [flushed, pending]: flushed is
\* what the file has received, pending what the writer's buffer holds
RECURSIVE WriterWrite(_, _)
WriterWrite(ws, p) ==
    IF Len(p) > BufSize - Len(ws.pending)
    THEN IF Len(ws.pending) = 0
         THEN [flushed |-> ws.flushed \o p, pending |-> <<>>]
         ELSE LET n == BufSize - Len(ws.pending)
              IN  WriterWrite([flushed |-> ws.flushed \o ws.pending \o Take(p, n),
                               pending |-> <<>>], Drop(p, n))
    ELSE [flushed |-> ws.flushed, pending |-> ws.pending \o p]

\* buf[:k] of the chunk buffer of drive.Write.  buf holds the bytes written
\* into the buffer so far; the rest of the ChunkSize bytes are still zero.
BufPrefix(buf, k) == [j \in 1..k |-> IF j <= Len(buf) THEN buf[j] ELSE NUL]

\* the buffer after a read stored data at its start
BufStore(buf, data) == data \o Drop(buf, Min(Len(data), Len(buf)))

\* the loop of drive.Write: i bytes of size read so far
RECURSIVE WriteLoop(_, _, _, _, _, _)
WriteLoop(c, rd, size, i, buf, ws) ==
    Bind(IF size - i < ChunkSize THEN size - i ELSE ChunkSize, LAMBDA k :
    IF k < 0 THEN [st |-> "panic", rd |-> rd, ws |-> ws] ELSE
    Bind(ReaderRead(c, rd, k), LAMBDA got :
    IF ~got.ok THEN [st |-> "err", rd |-> got.rd, ws |-> ws] ELSE
    Bind(BufStore(buf, SubSeq(c.wire, rd.pos + 1, rd.pos + got.n)), LAMBDA buf2 :
    Bind(WriterWrite(ws, BufPrefix(buf2, k)), LAMBDA ws2 :
    IF i + got.n >= size THEN [st |-> "ok", rd |-> got.rd, ws |-> ws2]
    ELSE WriteLoop(c, got.rd, size, i + got.n, buf2, ws2)))))

\* drive.Write(path, stream, size), the stream being the request's reader:
\* st is "ok", "err" or "panic" (buf[:size-i] with size-i negative); rd is
\* the reader afterwards.  The file holds what the writer flushed: all of
\* it after writer.Flush(), only the full buffers when the loop returned
\* early.
drive_Write(root, f, path, c, rd, size) ==
    Bind(getHostPath(root, path), LAMBDA h :
    IF ~h.ok
    THEN [st |-> "err", fs |-> f, err |-> h.err, rd |-> rd, leak |-> 0, hp |-> <<>>] ELSE
    Bind(osCreate(f, h.path), LAMBDA r :
    IF ~r.ok
    THEN [st |-> "err", fs |-> f, err |-> r.err, rd |-> rd, leak |-> 0,
          hp |-> <<h.path>>] ELSE
    Bind(WriteLoop(c, rd, size, 0, <<>>, [flushed |-> <<>>, pending |-> <<>>]), LAMBDA l :
    [st |-> l.st, rd |-> l.rd, leak |-> 0, hp |-> <<h.path>>,
     fs |-> Put(r.fs, h.path,
                FileEntry(IF l.st = "ok" THEN l.ws.flushed \o l.ws.pending
                          ELSE l.ws.flushed, "rw")),
     err |-> IF l.st = "err" THEN <<"E", "O", "F">> ELSE <<>>])))

(***************************************************************************)
(* auth/auth.go and auth/permissions.go                                    *)
(***************************************************************************)
E_InvalidKey == <<"i", "n", "v", "a", "l", "i", "d", " ", "a", "u", "t", "h", "e", "n", "t", "i", "c", "a", "t", "i", "o", "n", " ", "k", "e", "y", ":", " ">>

\* auth.NewAuthentication: no keys
NewAuthentication == [key \in {} |-> {}]

NoPermissions == [AllowedDrives |-> <<>>, CanWrite |-> FALSE]

\* authentication.AddKey: the allowed addresses are stored lower-cased
AddKey(keys, key, allowedIPs, permissions) ==
    LET auth == [allowedIPs |-> {ToLower(allowedIPs[i]) : i \in 1..Len(allowedIPs)},
                 permissions |-> permissions]
    IN  [q \in DOMAIN keys \cup {key} |-> IF q = key THEN auth ELSE keys[q]]

\* authentication.Authenticate: [ok, permissions, err]
Authenticate(keys, key, hostname) ==
    IF key \notin DOMAIN keys
    THEN [ok |-> FALSE, permissions |-> NoPermissions, err |-> E_InvalidKey \o key]
    ELSE IF ToLower(hostname) \notin keys[key].allowedIPs
    THEN [ok |-> FALSE, permissions |-> NoPermissions, err |-> E_InvalidKey \o key]
    ELSE [ok |-> TRUE, permissions |-> keys[key].permissions, err |-> <<>>]

\* Permissions.DriveAllowed
DriveAllowed(p, drive) ==
    \E i \in 1..Len(p.AllowedDrives) : p.AllowedDrives[i] = drive

(***************************************************************************)
(* The server's configuration (server/config.go: the drives map and the    *)
(* authentication table, set before Serve and never changed).  Drive d is  *)
(* rooted at /r and drive f at /s; drive e is named in a key's list but    *)
(* is not configured.  Key k may write and is allowed d and e; key r is    *)
(* read-only and allowed d; key z is read-only and allowed no drive.  All  *)
(* are bound to the address written "A" in the configuration.              *)
(***************************************************************************)
ServerDrives == (<<"d">> :> <<"/", "r">>) @@ (<<"f">> :> <<"/", "s">>)

ServerAuth ==
    AddKey(AddKey(AddKey(NewAuthentication,
                         <<"k">>, << <<"A">> >>,
                         [AllowedDrives |-> << <<"d">>, <<"e">> >>, CanWrite |-> TRUE]),
                  <<"r">>, << <<"A">> >>,
                  [AllowedDrives |-> << <<"d">> >>, CanWrite |-> FALSE]),
           <<"z">>, << <<"A">> >>,
           [AllowedDrives |-> <<>>, CanWrite |-> FALSE])

\* server.commands (NewServer)
V_ping == <<"p", "i", "n", "g">>

V_drives == <<"d", "r", "i", "v", "e", "s">>

V_create == <<"c", "r", "e", "a", "t", "e">>

V_mkdir == <<"m", "k", "d", "i", "r">>

V_read == <<"r", "e", "a", "d">>

V_list == <<"l", "i", "s", "t">>

V_stat == <<"s", "t", "a", "t">>

V_write == <<"w", "r", "i", "t", "e">>

V_remove == <<"r", "e", "m", "o", "v", "e">>

V_move == <<"m", "o", "v", "e">>

Commands == {V_ping, V_drives, V_create, V_mkdir, V_read, V_list, V_stat,
             V_write, V_remove, V_move}

(***************************************************************************)
(* server/request.go: responses.  Writes to the connection succeed (the    *)
(* client is there to read); out is the bytes written so far.              *)
(***************************************************************************)
S_SUCCESS == <<"S", "U", "C", "C", "E", "S", "S">>

S_FAILED == <<"F", "A", "I", "L", "E", "D">>

\* request.sendString
sendString(out, s) == out \o s \o <<NL>>

\* sendError without its last sendString: the fault of a failure
\* response that lacks the trailer
sendError_NoTrailer(out, s) ==
    sendString(sendString(sendString(out, Header), S_FAILED), s)

\* request.sendError
sendError(out, s) ==
    sendString(sendString(sendString(sendString(out, Header), S_FAILED), s), <<"0">>)

\* sendSuccess writing its trailer before the body: the fault of bytes
\* that follow the trailer
sendSuccess_TrailerFirst(out, s) ==
    sendString(sendString(sendString(out, Header), S_SUCCESS), <<"0">>) \o s

\* request.sendSuccess
sendSuccess(out, s) ==
    sendString(sendString(sendString(out, Header), S_SUCCESS) \o s, <<"0">>)

E_DriveNotAllowed == <<"d", "r", "i", "v", "e", " ", "n", "o", "t", " ", "a", "l", "l", "o", "w", "e", "d", ":", " ">>

E_DriveNotFound == <<"d", "r", "i", "v", "e", " ", "n", "o", "t", " ", "f", "o", "u", "n", "d", ":", " ">>

\* getDrive telling a drive that is not configured from one that is not
\* allowed: the fault of disclosing which drives exist
getDrive_Disclosing(permissions, drive) ==
    IF ~DriveAllowed(permissions, drive)
    THEN [ok |-> FALSE, root |-> <<>>, err |-> E_DriveNotAllowed \o drive]
    ELSE IF drive \notin DOMAIN ServerDrives
    THEN [ok |-> FALSE, root |-> <<>>, err |-> E_DriveNotFound \o drive]
    ELSE [ok |-> TRUE, root |-> ServerDrives[drive], err |-> <<>>]

\* request.getDrive: [ok, root, err]
getDrive(permissions, drive) ==
    IF ~DriveAllowed(permissions, drive)
    THEN [ok |-> FALSE, root |-> <<>>, err |-> E_DriveNotAllowed \o drive]
    ELSE IF drive \notin DOMAIN ServerDrives
    THEN [ok |-> FALSE, root |-> <<>>, err |-> E_DriveNotAllowed \o drive]
    ELSE [ok |-> TRUE, root |-> ServerDrives[drive], err |-> <<>>]

(***************************************************************************)
(* server/commands.go: the command handlers.  Each takes the connection    *)
(* c, the reader rd as handleRequest left it (after the verb line), the    *)
(* caller's permissions and the filesystem f.  Its result has              *)
(*   st:   "ok" (returned nil), "err" (returned an error) or "panic",      *)
(*   out:  the bytes written to the connection,                            *)
(*   rd:   the reader afterwards,                                          *)
(*   fs:   the filesystem afterwards,                                      *)
(*   ops:  the drive operations called, in order, each with the root of    *)
(*         its drive and the host paths it handed to package os,           *)
(*   leak: the file handles opened and not closed.                         *)
(***************************************************************************)
Op(name, root, hp) == [op |-> name, root |-> root, hp |-> hp]

Res(st, out, rd, f, ops, leak) ==
    [st |-> st, out |-> out, rd |-> rd, fs |-> f, ops |-> ops, leak |-> leak]

\* n successive calls of request.getString, as each handler starts with:
\* [ok, lines, rd]; the calls stop at the first that fails
RECURSIVE getStrings(_, _, _)
getStrings(c, rd, n) ==
    IF n = 0 THEN [ok |-> TRUE, lines |-> <<>>, rd |-> rd] ELSE
    Bind(getString(c, rd), LAMBDA l :
    IF ~l.ok THEN [ok |-> FALSE, lines |-> <<>>, rd |-> l.rd] ELSE
    Bind(getStrings(c, l.rd, n - 1), LAMBDA rest :
    [ok |-> rest.ok, lines |-> <<l.str>> \o rest.lines, rd |-> rest.rd]))

E_NoWrite == <<"n", "o", " ", "w", "r", "i", "t", "e", " ", "p", "e", "r", "m", "i", "s", "s", "i", "o", "n", "s">>

E_CannotBeRead == <<"c", "a", "n", "n", "o", "t", " ", "b", "e", " ", "r", "e", "a", "d", ":", " ">>

S_PONG == <<"P", "O", "N", "G">>

\* server.pingCommand
pingCommand(c, rd, permissions, f) ==
    Bind(consume(c, rd), LAMBDA c1 :
    IF c1.st # "ok" THEN Res(c1.st, <<>>, c1.rd, f, <<>>, 0) ELSE
    Bind(consume(c, c1.rd), LAMBDA c2 :
    IF c2.st # "ok" THEN Res(c2.st, <<>>, c2.rd, f, <<>>, 0)
    ELSE Res("ok", sendSuccess(<<>>, S_PONG \o <<NL>>), c2.rd, f, <<>>, 0)))

\* server.drivesCommand
drivesCommand(c, rd, permissions, f) ==
    Bind(consume(c, rd), LAMBDA c1 :
    IF c1.st # "ok" THEN Res(c1.st, <<>>, c1.rd, f, <<>>, 0) ELSE
    Bind(consume(c, c1.rd), LAMBDA c2 :
    IF c2.st # "ok" THEN Res(c2.st, <<>>, c2.rd, f, <<>>, 0) ELSE
    Bind(FormatInt(Len(permissions.AllowedDrives)), LAMBDA numDrivesStr :
    Res("ok",
        sendSuccess(<<>>, numDrivesStr \o <<NL>>
                          \o JoinStrings(permissions.AllowedDrives, <<NL>>)
                          \o <<NL>>),
        c2.rd, f, <<>>, 0))))

\* server.createCommand
createCommand(c, rd, permissions, f) ==
    Bind(getStrings(c, rd, 3), LAMBDA a :
    IF ~a.ok THEN Res("err", <<>>, a.rd, f, <<>>, 0) ELSE
    Bind(consume(c, a.rd), LAMBDA cs :
    IF cs.st # "ok" THEN Res(cs.st, <<>>, cs.rd, f, <<>>, 0) ELSE
    IF ~permissions.CanWrite
    THEN Res("ok", sendError(<<>>, E_NoWrite), cs.rd, f, <<>>, 0) ELSE
    Bind(getDrive(permissions, a.lines[2]), LAMBDA dr :
    IF ~dr.ok THEN Res("ok", sendError(<<>>, dr.err), cs.rd, f, <<>>, 0) ELSE
    Bind(drive_Create(dr.root, f, a.lines[3]), LAMBDA d :
    IF ~d.ok
    THEN Res("ok", sendError(<<>>, d.err), cs.rd, d.fs,
             <<Op("Create", dr.root, d.hp)>>, d.leak)
    ELSE Res("ok", sendSuccess(<<>>, <<>>), cs.rd, d.fs,
             <<Op("Create", dr.root, d.hp)>>, d.leak)))))

\* server.mkdirCommand
mkdirCommand(c, rd, permissions, f) ==
    Bind(getStrings(c, rd, 3), LAMBDA a :
    IF ~a.ok THEN Res("err", <<>>, a.rd, f, <<>>, 0) ELSE
    Bind(consume(c, a.rd), LAMBDA cs :
    IF cs.st # "ok" THEN Res(cs.st, <<>>, cs.rd, f, <<>>, 0) ELSE
    IF ~permissions.CanWrite
    THEN Res("ok", sendError(<<>>, E_NoWrite), cs.rd, f, <<>>, 0) ELSE
    Bind(getDrive(permissions, a.lines[2]), LAMBDA dr :
    IF ~dr.ok THEN Res("ok", sendError(<<>>, dr.err), cs.rd, f, <<>>, 0) ELSE
    Bind(drive_CreateDirectory(dr.root, f, a.lines[3]), LAMBDA d :
    IF ~d.ok
    THEN Res("ok", sendError(<<>>, d.err), cs.rd, d.fs,
             <<Op("CreateDirectory", dr.root, d.hp)>>, 0)
    ELSE Res("ok", sendSuccess(<<>>, <<>>), cs.rd, d.fs,
             <<Op("CreateDirectory", dr.root, d.hp)>>, 0)))))

\* server.readCommand: the header, SUCCESS and the length line are on the
\* connection before drive.Read runs
readCommand(c, rd, permissions, f) ==
    Bind(getStrings(c, rd, 3), LAMBDA a :
    IF ~a.ok THEN Res("err", <<>>, a.rd, f, <<>>, 0) ELSE
    Bind(consume(c, a.rd), LAMBDA cs :
    IF cs.st # "ok" THEN Res(cs.st, <<>>, cs.rd, f, <<>>, 0) ELSE
    Bind(getDrive(permissions, a.lines[2]), LAMBDA dr :
    IF ~dr.ok THEN Res("ok", sendError(<<>>, dr.err), cs.rd, f, <<>>, 0) ELSE
    Bind(drive_Stat(dr.root, f, a.lines[3]), LAMBDA s :
    IF ~s.ok
    THEN Res("ok", sendError(<<>>, s.err), cs.rd, f, <<Op("Stat", dr.root, s.hp)>>, 0)
    ELSE IF s.info.dir
    THEN Res("ok", sendError(<<>>, E_CannotBeRead \o a.lines[3]), cs.rd, f,
             <<Op("Stat", dr.root, s.hp)>>, 0) ELSE
    Bind(sendString(sendString(sendString(<<>>, Header), S_SUCCESS),
                    FormatInt(s.info.size)), LAMBDA hdr :
    Bind(drive_Read(dr.root, f, a.lines[3]), LAMBDA d :
    Res(IF d.ok THEN "ok" ELSE "err", IF d.ok THEN hdr \o d.out ELSE hdr, cs.rd, f,
        <<Op("Stat", dr.root, s.hp), Op("Read", dr.root, d.hp)>>, d.leak)))))))

\* the text of listCommand: one line "d <name>" or "f <name>" per item
RECURSIVE ListText(_)
ListText(items) ==
    IF Len(items) = 0 THEN <<>>
    ELSE (IF items[1].dir THEN <<"d", " ">> ELSE <<"f", " ">>)
         \o items[1].name \o <<NL>> \o ListText(Tail(items))

\* server.listCommand
listCommand(c, rd, permissions, f) ==
    Bind(getStrings(c, rd, 3), LAMBDA a :
    IF ~a.ok THEN Res("err", <<>>, a.rd, f, <<>>, 0) ELSE
    Bind(consume(c, a.rd), LAMBDA cs :
    IF cs.st # "ok" THEN Res(cs.st, <<>>, cs.rd, f, <<>>, 0) ELSE
    Bind(getDrive(permissions, a.lines[2]), LAMBDA dr :
    IF ~dr.ok THEN Res("ok", sendError(<<>>, dr.err), cs.rd, f, <<>>, 0) ELSE
    Bind(drive_ReadDir(dr.root, f, a.lines[3]), LAMBDA d :
    IF ~d.ok
    THEN Res("ok", sendError(<<>>, d.err), cs.rd, f, <<Op("ReadDir", dr.root, d.hp)>>, 0)
    ELSE Res("ok",
             sendSuccess(<<>>, FormatInt(Len(d.items)) \o <<NL>> \o ListText(d.items)),
             cs.rd, f, <<Op("ReadDir", dr.root, d.hp)>>, 0)))))

\* server.statCommand
statCommand(c, rd, permissions, f) ==
    Bind(getStrings(c, rd, 3), LAMBDA a :
    IF ~a.ok THEN Res("err", <<>>, a.rd, f, <<>>, 0) ELSE
    Bind(consume(c, a.rd), LAMBDA cs :
    IF cs.st # "ok" THEN Res(cs.st, <<>>, cs.rd, f, <<>>, 0) ELSE
    Bind(getDrive(permissions, a.lines[2]), LAMBDA dr :
    IF ~dr.ok THEN Res("ok", sendError(<<>>, dr.err), cs.rd, f, <<>>, 0) ELSE
    Bind(drive_Stat(dr.root, f, a.lines[3]), LAMBDA s :
    IF ~s.ok
    THEN Res("ok", sendError(<<>>, s.err), cs.rd, f, <<Op("Stat", dr.root, s.hp)>>, 0)
    ELSE Res("ok",
             sendSuccess(<<>>, IF s.info.dir THEN <<"d", NL>>
                               ELSE <<"f", " ">> \o FormatInt(s.info.size) \o <<NL>>),
             cs.rd, f, <<Op("Stat", dr.root, s.hp)>>, 0)))))

\* the rejection branches of writeCommand: consume, then sendError
writeReject(c, rd, f, msg, ops) ==
    Bind(consume(c, rd), LAMBDA cs :
    IF cs.st # "ok" THEN Res(cs.st, <<>>, cs.rd, f, ops, 0)
    ELSE Res("ok", sendError(<<>>, msg), cs.rd, f, ops, 0))

\* server.writeCommand
writeCommand(c, rd, permissions, f) ==
    Bind(getStrings(c, rd, 3), LAMBDA a :
    IF ~a.ok THEN Res("err", <<>>, a.rd, f, <<>>, 0)
    ELSE IF ~permissions.CanWrite THEN writeReject(c, a.rd, f, E_NoWrite, <<>>) ELSE
    Bind(getDrive(permissions, a.lines[2]), LAMBDA dr :
    IF ~dr.ok THEN writeReject(c, a.rd, f, dr.err, <<>>) ELSE
    Bind(drive_Stat(dr.root, f, a.lines[3]), LAMBDA s :
    IF ~s.ok \/ s.info.dir
    THEN writeReject(c, a.rd, f,
                     IF ~s.ok THEN s.err ELSE E_CannotBeRead \o a.lines[3],
                     <<Op("Stat", dr.root, s.hp)>>) ELSE
    Bind(getString(c, a.rd), LAMBDA ln :
    IF ~ln.ok THEN Res("err", <<>>, ln.rd, f, <<Op("Stat", dr.root, s.hp)>>, 0) ELSE
    Bind(ParseInt(ln.str, 0), LAMBDA len :
    IF ~len.ok THEN Res("err", <<>>, ln.rd, f, <<Op("Stat", dr.root, s.hp)>>, 0) ELSE
    Bind(drive_Write(dr.root, f, a.lines[3], c, ln.rd, len.val), LAMBDA d :
    Res(d.st, IF d.st = "ok" THEN sendSuccess(<<>>, <<>>) ELSE <<>>, d.rd, d.fs,
        <<Op("Stat", dr.root, s.hp), Op("Write", dr.root, d.hp)>>, d.leak)))))))

\* removeCommand without its test of CanWrite: the fault of a mutating
\* handler that forgets the write permission
removeCommand_Unguarded(c, rd, permissions, f) ==
    Bind(getStrings(c, rd, 3), LAMBDA a :
    IF ~a.ok THEN Res("err", <<>>, a.rd, f, <<>>, 0) ELSE
    Bind(consume(c, a.rd), LAMBDA cs :
    IF cs.st # "ok" THEN Res(cs.st, <<>>, cs.rd, f, <<>>, 0) ELSE
    Bind(getDrive(permissions, a.lines[2]), LAMBDA dr :
    IF ~dr.ok THEN Res("ok", sendError(<<>>, dr.err), cs.rd, f, <<>>, 0) ELSE
    Bind(drive_Remove(dr.root, f, a.lines[3]), LAMBDA d :
    IF ~d.ok
    THEN Res("ok", sendError(<<>>, d.err), cs.rd, d.fs,
             <<Op("Remove", dr.root, d.hp)>>, 0)
    ELSE Res("ok", sendSuccess(<<>>, <<>>), cs.rd, d.fs,
             <<Op("Remove", dr.root, d.hp)>>, 0)))))

\* server.removeCommand
removeCommand(c, rd, permissions, f) ==
    Bind(getStrings(c, rd, 3), LAMBDA a :
    IF ~a.ok THEN Res("err", <<>>, a.rd, f, <<>>, 0) ELSE
    Bind(consume(c, a.rd), LAMBDA cs :
    IF cs.st # "ok" THEN Res(cs.st, <<>>, cs.rd, f, <<>>, 0) ELSE
    IF ~permissions.CanWrite
    THEN Res("ok", sendError(<<>>, E_NoWrite), cs.rd, f, <<>>, 0) ELSE
    Bind(getDrive(permissions, a.lines[2]), LAMBDA dr :
    IF ~dr.ok THEN Res("ok", sendError(<<>>, dr.err), cs.rd, f, <<>>, 0) ELSE
    Bind(drive_Remove(dr.root, f, a.lines[3]), LAMBDA d :
    IF ~d.ok
    THEN Res("ok", sendError(<<>>, d.err), cs.rd, d.fs,
             <<Op("Remove", dr.root, d.hp)>>, 0)
    ELSE Res("ok", sendSuccess(<<>>, <<>>), cs.rd, d.fs,
             <<Op("Remove", dr.root, d.hp)>>, 0)))))

\* server.moveCommand
moveCommand(c, rd, permissions, f) ==
    Bind(getStrings(c, rd, 4), LAMBDA a :
    IF ~a.ok THEN Res("err", <<>>, a.rd, f, <<>>, 0) ELSE
    Bind(consume(c, a.rd), LAMBDA cs :
    IF cs.st # "ok" THEN Res(cs.st, <<>>, cs.rd, f, <<>>, 0) ELSE
    IF ~permissions.CanWrite
    THEN Res("ok", sendError(<<>>, E_NoWrite), cs.rd, f, <<>>, 0) ELSE
    Bind(getDrive(permissions, a.lines[2]), LAMBDA dr :
    IF ~dr.ok THEN Res("ok", sendError(<<>>, dr.err), cs.rd, f, <<>>, 0) ELSE
    Bind(drive_Move(dr.root, f, a.lines[3], a.lines[4]), LAMBDA d :
    IF ~d.ok
    THEN Res("ok", sendError(<<>>, d.err), cs.rd, d.fs,
             <<Op("Move", dr.root, d.hp)>>, 0)
    ELSE Res("ok", sendSuccess(<<>>, <<>>), cs.rd, d.fs,
             <<Op("Move", dr.root, d.hp)>>, 0)))))

\* s.commands[command](r): the dispatch of handleRequest
Dispatch(command, c, rd, permissions, f) ==
    CASE command = V_ping   -> pingCommand(c, rd, permissions, f)
      [] command = V_drives -> drivesCommand(c, rd, permissions, f)
      [] command = V_create -> createCommand(c, rd, permissions, f)
      [] command = V_mkdir  -> mkdirCommand(c, rd, permissions, f)
      [] command = V_read   -> readCommand(c, rd, permissions, f)
      [] command = V_list   -> listCommand(c, rd, permissions, f)
      [] command = V_stat   -> statCommand(c, rd, permissions, f)
      [] command = V_write  -> writeCommand(c, rd, permissions, f)
      [] command = V_remove -> removeCommand(c, rd, permissions, f)
      [] command = V_move   -> moveCommand(c, rd, permissions, f)

E_InvalidCommand == <<"i", "n", "v", "a", "l", "i", "d", " ", "c", "o", "m", "m", "a", "n", "d", " ">>

\* the two consume calls and the sendError of handleRequest's rejections
rejectRequest(c, rd, f, msg) ==
    Bind(consume(c, rd), LAMBDA c1 :
    IF c1.st # "ok" THEN Res(c1.st, <<>>, c1.rd, f, <<>>, 0) ELSE
    Bind(consume(c, c1.rd), LAMBDA c2 :
    IF c2.st # "ok" THEN Res(c2.st, <<>>, c2.rd, f, <<>>, 0)
    ELSE Res("ok", sendError(<<>>, msg), c2.rd, f, <<>>, 0)))

\* Routed with the connection closed only when a response was written:
\* the fault of a Close placed on the reply paths instead of a defer
Routed_CloseOnReply(c, res, route, key, command, permissions) ==
    [st |-> res.st, out |-> res.out, rd |-> res.rd, fs |-> res.fs,
     ops |-> res.ops, leak |-> res.leak, route |-> route, key |-> key,
     command |-> command, permissions |-> permissions,
     closed |-> IF res.out # <<>> THEN 1 ELSE 0]

\* a command's result as handleRequest's: route names the path taken
\* ("ioerr", "badheader", "authfail", "invalid" or "command"), key and
\* command are r.key and r.command, closed counts the calls of
\* r.conn.Close()
Routed(c, res, route, key, command, permissions) ==
    [st |-> IF PeerReads(c, res.out) = res.out THEN res.st ELSE "err",
     out |-> PeerReads(c, res.out), rd |-> res.rd, fs |-> res.fs,
     ops |-> res.ops, leak |-> res.leak, route |-> route, key |-> key,
     command |-> command, permissions |-> permissions, closed |-> 1]

\* handleRequest without the comparison of the first line with the
\* header: the fault of serving a connection that does not speak the
\* protocol
handleRequest_AnyHeader(c, f) ==
    Bind(getStrings(c, [pos |-> 0, w |-> 0], 1), LAMBDA h :
    IF ~h.ok
    THEN Routed(c, Res("err", <<>>, h.rd, f, <<>>, 0), "ioerr", <<>>, <<>>, NoPermissions)
    ELSE
    Bind(getStrings(c, h.rd, 2), LAMBDA kc :
    IF ~kc.ok
    THEN Routed(c, Res("err", <<>>, kc.rd, f, <<>>, 0), "ioerr", <<>>, <<>>,
                NoPermissions) ELSE
    Bind(ToLower(kc.lines[2]), LAMBDA command :
    Bind(Authenticate(ServerAuth, kc.lines[1], c.addr), LAMBDA auth :
    IF ~auth.ok
    THEN Routed(c, rejectRequest(c, kc.rd, f, auth.err), "authfail", kc.lines[1],
                command, NoPermissions)
    ELSE IF command \notin Commands
    THEN Routed(c, rejectRequest(c, kc.rd, f, E_InvalidCommand \o command), "invalid",
                kc.lines[1], command, auth.permissions)
    ELSE Routed(c, Dispatch(command, c, kc.rd, auth.permissions, f), "command",
                kc.lines[1], command, auth.permissions)))))

\* handleRequest looking the verb line up as it was sent: the fault of a
\* server that matches verbs by their exact letters
handleRequest_CaseSensitive(c, f) ==
    Bind(getStrings(c, [pos |-> 0, w |-> 0], 1), LAMBDA h :
    IF ~h.ok
    THEN Routed(c, Res("err", <<>>, h.rd, f, <<>>, 0), "ioerr", <<>>, <<>>, NoPermissions)
    ELSE IF h.lines[1] # Header
    THEN Routed(c, Res("ok", <<>>, h.rd, f, <<>>, 0), "badheader", <<>>, <<>>,
                NoPermissions) ELSE
    Bind(getStrings(c, h.rd, 2), LAMBDA kc :
    IF ~kc.ok
    THEN Routed(c, Res("err", <<>>, kc.rd, f, <<>>, 0), "ioerr", <<>>, <<>>,
                NoPermissions) ELSE
    Bind(kc.lines[2], LAMBDA command :
    Bind(Authenticate(ServerAuth, kc.lines[1], c.addr), LAMBDA auth :
    IF ~auth.ok
    THEN Routed(c, rejectRequest(c, kc.rd, f, auth.err), "authfail", kc.lines[1],
                command, NoPermissions)
    ELSE IF command \notin Commands
    THEN Routed(c, rejectRequest(c, kc.rd, f, E_InvalidCommand \o command), "invalid",
                kc.lines[1], command, auth.permissions)
    ELSE Routed(c, Dispatch(command, c, kc.rd, auth.permissions, f), "command",
                kc.lines[1], command, auth.permissions)))))

\* server.handleRequest.  c.addr is the host part of the peer address
\* (net.SplitHostPort of a TCP address does not fail).
handleRequest(c, f) ==
    Bind(getStrings(c, [pos |-> 0, w |-> 0], 1), LAMBDA h :
    IF ~h.ok
    THEN Routed(c, Res("err", <<>>, h.rd, f, <<>>, 0), "ioerr", <<>>, <<>>, NoPermissions)
    ELSE IF h.lines[1] # Header
    THEN Routed(c, Res("ok", <<>>, h.rd, f, <<>>, 0), "badheader", <<>>, <<>>,
                NoPermissions) ELSE
    Bind(getStrings(c, h.rd, 2), LAMBDA kc :
    IF ~kc.ok
    THEN Routed(c, Res("err", <<>>, kc.rd, f, <<>>, 0), "ioerr", <<>>, <<>>,
                NoPermissions) ELSE
    Bind(ToLower(kc.lines[2]), LAMBDA command :
    Bind(Authenticate(ServerAuth, kc.lines[1], c.addr), LAMBDA auth :
    IF ~auth.ok
    THEN Routed(c, rejectRequest(c, kc.rd, f, auth.err), "authfail", kc.lines[1],
                command, NoPermissions)
    ELSE IF command \notin Commands
    THEN Routed(c, rejectRequest(c, kc.rd, f, E_InvalidCommand \o command), "invalid",
                kc.lines[1], command, auth.permissions)
    ELSE Routed(c, Dispatch(command, c, kc.rd, auth.permissions, f), "command",
                kc.lines[1], command, auth.permissions)))))

(***************************************************************************)
(* The requests clients send.  A request q is described by its header     *)
(* line, key, verb line, arg-length line, arg block, payload-length line   *)
(* and payload; drive, path and dest name what the arg block was built     *)
(* from.  Wire(q) is its bytes in the layout of the protocol.              *)
(***************************************************************************)
Line(s) == s \o <<NL>>

ArgBlock(drive, path) == Line(drive) \o Line(path)

MoveArgBlock(drive, src, dest) == Line(drive) \o Line(src) \o Line(dest)

Wire(q) ==
    Line(q.hdr) \o Line(q.key) \o Line(q.verb) \o Line(q.alen) \o q.args
    \o Line(q.plen) \o q.payload

\* the byte after which the verb line ends
VerbEnd(q) == Len(q.hdr) + Len(q.key) + Len(q.verb) + 3

\* a request as the client library frames it: the arg-length line is the
\* decimal length of the arg block, the payload-length line the decimal
\* length of the payload
Framed(key, addr, verb, drive, path, dest, args, payload) ==
    [hdr |-> Header, key |-> key, addr |-> addr, verb |-> verb,
     drive |-> drive, path |-> path, dest |-> dest, args |-> args,
     alen |-> FormatInt(Len(args)), plen |-> FormatInt(Len(payload)),
     payload |-> payload, sends |-> {}, reads |-> {}]

\* a request for a verb of the catalogue, with the arg block the verb takes
Request(key, addr, verb, drive, path, dest, payload) ==
    Framed(key, addr, verb, drive, path, dest,
           IF ToLower(verb) \in {V_ping, V_drives} THEN <<>>
           ELSE IF ToLower(verb) = V_move THEN MoveArgBlock(drive, path, dest)
           ELSE ArgBlock(drive, path),
           payload)

\* the connection that carries request q with the transport reads cut at cuts
\* the bytes of the request the client sends: all of them, or the first n
\* when q.sends is {n} and the client then stops sending
Sent(q) ==
    IF q.sends = {} THEN Wire(q)
    ELSE Take(Wire(q), Min(Len(Wire(q)), CHOOSE n \in q.sends : TRUE))

Conn(q, cuts) ==
    [q |-> q, wire |-> Sent(q), cuts |-> cuts, addr |-> q.addr, reads |-> q.reads]

\* the ways the transport delivers a request: at once, cut in two at any
\* byte after the verb line or inside the header line, or byte by byte
Deliveries(q) ==
    {{}} \cup {{i} : i \in {3} \cup (VerbEnd(q)..(Len(Wire(q)) - 1))}
         \cup {1..Len(Wire(q))}

Conns(qs) == UNION {{Conn(q, cuts) : cuts \in Deliveries(q)} : q \in qs}

\* delivered at once
Whole(qs) == {Conn(q, {}) : q \in qs}

\* delivered at once, or with the payload in a read of its own, or with a
\* cut in the middle of the payload as well
PayloadCuts(qs) ==
    UNION {{Conn(q, {}), Conn(q, {Len(Wire(q)) - Len(q.payload)}),
            Conn(q, {Len(Wire(q)) - Len(q.payload),
                     Len(Wire(q)) - (Len(q.payload) \div 2)})} : q \in qs}

(***************************************************************************)
(* The inputs of the model: the host filesystem at start and the requests. *)
(***************************************************************************)
\* the longest payload of the write requests that vary their payload
MaxPayload == 2

\* the longest client path of the requests that vary their path freely
MaxPathLen == 4

\* all sequences over alphabet of length at most n
RECURSIVE SeqsUpTo(_, _)
SeqsUpTo(alphabet, n) ==
    IF n = 0 THEN {<<>>}
    ELSE LET shorter == SeqsUpTo(alphabet, n - 1)
         IN  shorter \cup {Append(s, ch) : s \in shorter, ch \in alphabet}

\* n bytes that differ from their neighbours
Pattern(n) == [i \in 1..n |-> <<"x", "y", "z">>[(i % 3) + 1]]

\* /r/a: a file; /r/q: a read-only file; /r/u: a file without permissions;
\* /r/s: a directory holding the file /r/s/a; /r/t: an empty directory;
\* /s: the root of drive f, holding the file /s/a
SmallFS ==
    (<<"/", "r">> :> DirEntry)
    @@ (<<"/", "r", "/", "a">> :> FileEntry(<<"h", "i", NL>>, "rw"))
    @@ (<<"/", "r", "/", "q">> :> FileEntry(<<"q">>, "ro"))
    @@ (<<"/", "r", "/", "u">> :> FileEntry(<<"u">>, "none"))
    @@ (<<"/", "r", "/", "s">> :> DirEntry)
    @@ (<<"/", "r", "/", "s", "/", "a">> :> FileEntry(<<>>, "rw"))
    @@ (<<"/", "r", "/", "t">> :> DirEntry)
    @@ (<<"/", "s">> :> DirEntry)
    @@ (<<"/", "s", "/", "a">> :> FileEntry(<<"s">>, "rw"))

\* the sizes of the files /r/0, /r/1, ... of BigFS: around the chunk size
\* and around the size of the bufio buffer
BigSizes == <<ChunkSize - 1, ChunkSize, ChunkSize + 1, BufSize, BufSize + 1,
              ChunkSize + BufSize>>

BigName(i) == <<Digits[i]>>

BigFS ==
    [p \in {<<"/", "r">>} \cup {<<"/", "r", "/">> \o BigName(i) : i \in 1..Len(BigSizes)} |->
        IF p = <<"/", "r">> THEN DirEntry
        ELSE FileEntry(Pattern(BigSizes[CHOOSE i \in 1..Len(BigSizes) :
                                           p = <<"/", "r", "/">> \o BigName(i)]), "rw")]

\* (key, address) pairs: the two keys from their address in either letter
\* case, a key from another address, an unknown key, a key in the wrong case
AuthCases ==
    {<< <<"k">>, <<"a">> >>, << <<"k">>, <<"A">> >>, << <<"k">>, <<"b">> >>,
     << <<"r">>, <<"a">> >>, << <<"r">>, <<"b">> >>, << <<"x">>, <<"a">> >>,
     << <<"K">>, <<"a">> >>}

DriveNames == {<<"d">>, <<"e">>, <<"f">>}

\* verb lines: the catalogue, a verb outside it, and verbs in upper case
VerbLines == Commands \cup {<<"n", "o", "p">>, <<"P", "I", "N", "G">>, <<"S", "t", "a", "t">>}

\* client paths: files, directories, a missing path, and paths with ".",
\* "..", doubled and leading separators
ClientPaths ==
    {<<"a">>, <<"q">>, <<"u">>, <<"s">>, <<"t">>, <<"n">>, <<"s", "/", "a">>,
     <<>>, <<".">>, <<".", ".">>, <<"/", "a">>, <<".", "/", "a">>,
     <<"s", "/", "/", "a">>, <<"s", "/", ".", ".", "/", "a">>,
     <<"a", "/", ".", ".", "/", ".", ".">>, <<".", ".", "/", "s", "/", "a">>,
     <<"s", "/", ".", ".", "/", ".", ".", "/", "s", "/", "a">>,
     <<"/", ".", ".", "/", "s">>, <<"a", ".", ".", "b">>}

DestPaths == {<<"n">>, <<"a">>, <<"t">>, <<".", ".", "/", "n">>, <<"s", "/", "n">>}

Payloads == SeqsUpTo({"x", NL}, MaxPayload)

\* every (key, address) pair with every verb line, on drive d
AuthRequests ==
    {Request(ka[1], ka[2], v, <<"d">>, p, <<"n">>, IF v = V_write THEN <<"x", "y">> ELSE <<>>) :
        ka \in AuthCases, v \in VerbLines, p \in {<<"a">>, <<"n">>}}

\* every path-taking verb on every drive and client path, by both keys
PathRequests ==
    {Request(k, <<"a">>, v, d, p, <<"n">>,
             IF v = V_write THEN <<"x", "y">> ELSE <<>>) :
        k \in {<<"k">>, <<"r">>},
        v \in Commands \ {V_ping, V_drives, V_move},
        d \in DriveNames, p \in ClientPaths}

MoveRequests ==
    {Request(k, <<"a">>, V_move, d, p, dest, <<>>) :
        k \in {<<"k">>, <<"r">>}, d \in DriveNames, p \in ClientPaths,
        dest \in DestPaths}

\* writes of every payload
WriteRequests ==
    {Request(k, <<"a">>, V_write, <<"d">>, p, <<>>, b) :
        k \in {<<"k">>, <<"r">>}, p \in {<<"a">>, <<"q">>, <<"s">>, <<"n">>},
        b \in Payloads}

\* stat and create of every client path over ".", "/" and a name byte
FreePathRequests ==
    {Request(<<"k">>, <<"a">>, v, <<"d">>, p, <<>>, <<>>) :
        v \in {V_stat, V_create}, p \in SeqsUpTo({"a", ".", Sep}, MaxPathLen)}

\* strings.ToUpper
ToUpper(s) ==
    [i \in 1..Len(s) |->
        IF \E j \in 1..26 : LowerCase[j] = s[i]
        THEN UpperCase[CHOOSE j \in 1..26 : LowerCase[j] = s[i]] ELSE s[i]]

\* every verb of the catalogue in upper case and with a capital first
\* letter
CaseRequests ==
    {Request(<<"k">>, <<"a">>, w, <<"d">>, <<"a">>, <<"n">>,
             IF ToLower(w) = V_write THEN <<"x", "y">> ELSE <<>>) :
        w \in {ToUpper(v) : v \in Commands}
               \cup {ToUpper(Take(v, 1)) \o Drop(v, 1) : v \in Commands}}

\* requests of clients that stop in the middle of the exchange: one of
\* each kind of request, sent up to any byte but the last, or sent whole
\* by a client that stops reading the reply after some bytes
StallBase ==
    {Request(<<"k">>, <<"a">>, V_ping, <<>>, <<>>, <<>>, <<>>),
     Request(<<"x">>, <<"a">>, V_ping, <<>>, <<>>, <<>>, <<>>),
     Request(<<"k">>, <<"a">>, <<"n", "o", "p">>, <<"d">>, <<"a">>, <<>>, <<>>),
     Request(<<"k">>, <<"a">>, V_create, <<"d">>, <<"n">>, <<>>, <<>>),
     Request(<<"k">>, <<"a">>, V_read, <<"d">>, <<"a">>, <<>>, <<>>),
     Request(<<"k">>, <<"a">>, V_list, <<"d">>, <<>>, <<>>, <<>>),
     Request(<<"r">>, <<"a">>, V_write, <<"d">>, <<"a">>, <<>>, <<"x", "y">>),
     Request(<<"k">>, <<"a">>, V_write, <<"d">>, <<"a">>, <<>>, <<"x", "y">>),
     Request(<<"k">>, <<"a">>, V_move, <<"d">>, <<"a">>, <<"n">>, <<>>)}

StalledRequests ==
    UNION {{[q EXCEPT !.sends = {n}] : n \in 0..(Len(Wire(q)) - 1)} : q \in StallBase}

UnreadRequests ==
    {[q EXCEPT !.reads = {n}] : q \in StallBase, n \in {0, Len(Header) + 1, 2 * Len(Header)}}

\* the request of a client that stops, followed by a ping
StallThenPing ==
    {<<Conn(q, {}), Conn(Request(<<"k">>, <<"a">>, V_ping, <<>>, <<>>, <<>>, <<>>), {})>> :
        q \in StalledRequests \cup UnreadRequests}

\* the drives verb by every key of the server
DrivesRequests ==
    {Request(k, <<"a">>, V_drives, <<>>, <<>>, <<>>, <<>>) : k \in DOMAIN ServerAuth}

\* requests whose framing is not the protocol's: another header line, an
\* arg-length or payload-length line that is wrong or no decimal number, a
\* payload shorter or longer than announced
BadHeaders == {<<"D", "E", "E", "P", "W", "E", "L", "L", "-", "v", "1">>, <<>>,
               <<"d", "e", "e", "p", "w", "e", "l", "l", "-", "v", "0">>}

BadLengths == {<<"x">>, <<>>, <<"-", "1">>, <<"0", "x", "2">>, <<"0", "1", "0">>,
               <<"+", "2">>, <<"1", "_", "0">>, <<"9">>, <<"1">>, <<"2", " ">>}

MalformedBase ==
    {Request(k, <<"a">>, v, <<"d">>, p, <<"n">>, <<"x", "y">>) :
        k \in {<<"k">>, <<"x">>},
        v \in {V_ping, V_create, V_write, V_move, V_read, <<"n", "o", "p">>},
        p \in {<<"a">>}}

MalformedRequests ==
    {[q EXCEPT !.hdr = h] : q \in MalformedBase, h \in BadHeaders}
    \cup {[q EXCEPT !.alen = l] : q \in MalformedBase, l \in BadLengths}
    \cup {[q EXCEPT !.plen = l] : q \in MalformedBase, l \in BadLengths}

\* requests with payloads and files around the chunk and buffer sizes
BigPayloadRequests ==
    {Request(k, <<"a">>, V_write, <<"d">>, BigName(1), <<>>, Pattern(n)) :
        k \in {<<"k">>, <<"r">>}, n \in {ChunkSize - 1, ChunkSize, BufSize + ChunkSize}}

BigFileRequests ==
    {Request(<<"k">>, <<"a">>, v, <<"d">>, BigName(i), <<>>, <<>>) :
        v \in {V_read, V_stat}, i \in 1..Len(BigSizes)}

(***************************************************************************)
(* The server handling requests one after the other (server.worker with    *)
(* the requests of the job queue).                                         *)
(*   fs:    the host filesystem,                                           *)
(*   jobs:  the connections accepted and waiting on the job queue,         *)
(*   done:  for every connection handled, the connection, the filesystem   *)
(*          before and the result of handleRequest,                        *)
(*   alive: the server process runs (a panic in a worker ends it).         *)
(* The other variables are those of the goroutines of a serving server,    *)
(* described further down; here they stay as NewServer leaves them.        *)
(*   calls: the calls of the client library and of the stream primitives,  *)
(*          each with its result once it has returned (further down).      *)
(***************************************************************************)
VARIABLES fs, jobs, done, alive, running, stopSignal, listener, serve, wk, stop, conns, calls

vars == <<fs, jobs, done, alive, running, stopSignal, listener, serve, wk, stop, conns,
          calls>>

\* s.numWorkers and s.backlogSize of the server of the model
NumWorkers == 2

BacklogSize == 1

\* the number of connections the clients open
MaxConns == 4

\* a worker that holds no result of handleRequest
NoResult == [st |-> "ok", closed |-> 0]

\* the server as NewServer leaves it: Serve and Stop not called
NotServing ==
    /\ running = FALSE
    /\ stopSignal = 0
    /\ listener = "nil"
    /\ serve = [pc |-> "none", i |-> 0, ok |-> TRUE, req |-> 0, ret |-> "none"]
    /\ wk = [w \in 1..NumWorkers |->
                [pc |-> "unborn", req |-> 0, res |-> NoResult, early |-> FALSE]]
    /\ stop = [pc |-> "notcalled", i |-> 0, serving |-> FALSE]
    /\ conns = <<>>

\* a write of a payload followed by a read of the same path
WriteThenRead ==
    {<<w, Conn(Request(<<"k">>, <<"a">>, V_read, w.q.drive, w.q.path, <<>>, <<>>), {})>> :
        w \in Conns({q \in WriteRequests : q.key = <<"k">> /\ q.path = <<"a">>})}

Init ==
    /\ done = <<>>
    /\ alive = TRUE
    /\ NotServing
    /\ calls = <<>>
    /\ \/ /\ fs = SmallFS
          /\ \/ jobs \in {<<c>> : c \in Conns(AuthRequests \cup PathRequests
                                              \cup WriteRequests \cup MalformedRequests
                                              \cup DrivesRequests \cup CaseRequests)}
             \/ jobs \in {<<c>> : c \in Whole(MoveRequests \cup FreePathRequests)}
             \/ jobs \in WriteThenRead
       \/ /\ fs = BigFS
          /\ jobs \in {<<c>> : c \in PayloadCuts(BigPayloadRequests)
                                         \cup Whole(BigFileRequests)}

\* worker leaving its loop when handleRequest returns an error: the fault
\* of a worker that a failed connection takes down
worker_EndsOnError ==
    /\ alive
    /\ jobs # <<>>
    /\ done' = Append(done, [conn |-> Head(jobs), before |-> fs,
                             res |-> handleRequest(Head(jobs), fs)])
    /\ fs' = done'[Len(done')].res.fs
    /\ alive' = (done'[Len(done')].res.st = "ok")
    /\ jobs' = Tail(jobs)
    /\ UNCHANGED <<running, stopSignal, listener, serve, wk, stop, conns, calls>>

\* server.worker, the job branch: take a request off the job queue and
\* handle it
worker ==
    /\ alive
    /\ jobs # <<>>
    /\ done' = Append(done, [conn |-> Head(jobs), before |-> fs,
                             res |-> handleRequest(Head(jobs), fs)])
    /\ fs' = done'[Len(done')].res.fs
    /\ alive' = (done'[Len(done')].res.st # "panic")
    /\ jobs' = Tail(jobs)
    /\ UNCHANGED <<running, stopSignal, listener, serve, wk, stop, conns, calls>>

Next == worker

Spec == Init /\ [][Next]_vars

\* the server with, on its job queue, the request of a client that stops
\* and a ping
StallInit ==
    /\ done = <<>>
    /\ alive = TRUE
    /\ NotServing
    /\ calls = <<>>
    /\ fs = SmallFS
    /\ jobs \in StallThenPing

\* a worker that has a request to take eventually takes it: the read that
\* waits for a client that has stopped returns at its deadline
StallSpec == StallInit /\ [][Next]_vars /\ WF_vars(worker)

(***************************************************************************)
(* server/config.go: the goroutines of a serving server.  Serve runs in    *)
(* one goroutine (cmd/deepwell-server/main.go: go s.Serve()), each worker  *)
(* in its own, and Stop in the goroutine of main.  A step is what one      *)
(* goroutine does between two points where another can run.  The reads    *)
(* and writes of s.running are single loads and stores.                    *)
(*   running:    s.running,                                                *)
(*   jobs:       the requests in the channel s.jobs, here the numbers of   *)
(*               their connections,                                        *)
(*   stopSignal: the number of values in the channel s.stopSignal,         *)
(*   listener:   s.listener: "nil", or the state of the listener stored,   *)
(*   serve:      the goroutine of Serve and listen: where it stands, its   *)
(*               loop counter i, the result ok of tls.Listen, the request  *)
(*               req it holds and what it returned,                        *)
(*   wk:         the workers: where each stands, the request it holds,     *)
(*               the result of handleRequest it is returning with, and     *)
(*               whether the request was taken before Stop was called,     *)
(*   stop:       the call of Stop: where it stands, its loop counter i,    *)
(*               and whether the accept loop ran when Stop was called,     *)
(*   conns:      the connections accepted, in order: the bytes written to  *)
(*               each, whether its handler has run, the calls of Close on  *)
(*               it, how often a worker took it, and whether its handler   *)
(*               began before Stop was called and ended after.             *)
(***************************************************************************)
\* the five kinds of request the clients of a serving server send, one
\* after the other: a create, a ping with an unknown key, a connection
\* that does not speak the protocol, a ping whose arg-length line is no
\* number, and a ping
LifeRequests ==
    <<Request(<<"k">>, <<"a">>, V_create, <<"d">>, <<"n">>, <<>>, <<>>),
      Request(<<"x">>, <<"a">>, V_ping, <<>>, <<>>, <<>>, <<>>),
      [Request(<<"k">>, <<"a">>, V_ping, <<>>, <<>>, <<>>, <<>>)
          EXCEPT !.hdr = <<"G", "E", "T", " ", "/">>],
      [Request(<<"k">>, <<"a">>, V_ping, <<>>, <<>>, <<>>, <<>>)
          EXCEPT !.alen = <<"x">>],
      Request(<<"k">>, <<"a">>, V_ping, <<>>, <<>>, <<>>, <<>>)>>

\* the connection with number id
LifeConn(id) == Conn(LifeRequests[((id - 1) % Len(LifeRequests)) + 1], {})

\* the filesystems of the serving server: the one it starts with and the
\* one the create leaves
LifeFS == {SmallFS, handleRequest(LifeConn(1), SmallFS).fs}

\* handleRequest on every kind of connection and filesystem of the serving
\* server
LifeResults ==
    [i \in 1..Len(LifeRequests), f \in LifeFS |-> handleRequest(LifeConn(i), f)]

NewConnState ==
    [out |-> <<>>, handled |-> FALSE, closed |-> 0, taken |-> 0, overStop |-> FALSE]

ServeInit ==
    /\ fs = SmallFS
    /\ jobs = <<>>
    /\ done = <<>>
    /\ alive = TRUE
    /\ running = FALSE
    /\ stopSignal = 0
    /\ listener = "nil"
    /\ serve = [pc |-> "Serve", i |-> 0, ok |-> TRUE, req |-> 0, ret |-> "none"]
    /\ wk = [w \in 1..NumWorkers |->
                [pc |-> "unborn", req |-> 0, res |-> NoResult, early |-> FALSE]]
    /\ stop = [pc |-> "notcalled", i |-> 0, serving |-> FALSE]
    /\ conns = <<>>
    /\ calls = <<>>

\* Serve: s.running = true
Serve_setRunning ==
    /\ alive
    /\ serve.pc = "Serve"
    /\ running' = TRUE
    /\ serve' = [serve EXCEPT !.pc = "make"]
    /\ UNCHANGED <<fs, jobs, done, alive, stopSignal, listener, wk, stop, conns, calls>>

\* Serve: s.jobs = make(...), s.stopSignal = make(...)
Serve_make ==
    /\ alive
    /\ serve.pc = "make"
    /\ jobs' = <<>>
    /\ stopSignal' = 0
    /\ serve' = [serve EXCEPT !.pc = "spawn", !.i = 0]
    /\ UNCHANGED <<fs, done, alive, running, listener, wk, stop, conns, calls>>

\* Serve: go s.worker(), once per turn of the loop; then s.listen()
Serve_spawn ==
    /\ alive
    /\ serve.pc = "spawn"
    /\ IF serve.i < NumWorkers
       THEN /\ wk' = [wk EXCEPT ![serve.i + 1].pc = "loop"]
            /\ serve' = [serve EXCEPT !.i = serve.i + 1]
       ELSE /\ serve' = [serve EXCEPT !.pc = "tlsListen"]
            /\ UNCHANGED wk
    /\ UNCHANGED <<fs, jobs, done, alive, running, stopSignal, listener, stop, conns, calls>>

\* listen: listener, err := tls.Listen(...), which succeeds or fails
listen_tlsListen ==
    /\ alive
    /\ serve.pc = "tlsListen"
    /\ \E ok \in BOOLEAN : serve' = [serve EXCEPT !.pc = "store", !.ok = ok]
    /\ UNCHANGED <<fs, jobs, done, alive, running, stopSignal, listener, wk, stop, conns, calls>>

\* listen: s.listener = listener; if err != nil { return err }
listen_store ==
    /\ alive
    /\ serve.pc = "store"
    /\ listener' = IF serve.ok THEN "open" ELSE "nil"
    /\ serve' = IF serve.ok THEN [serve EXCEPT !.pc = "loop"]
                ELSE [serve EXCEPT !.pc = "returned", !.ret = "err"]
    /\ UNCHANGED <<fs, jobs, done, alive, running, stopSignal, wk, stop, conns, calls>>

\* listen: for s.running
listen_loop ==
    /\ alive
    /\ serve.pc = "loop"
    /\ serve' = IF running THEN [serve EXCEPT !.pc = "Accept"]
                ELSE [serve EXCEPT !.pc = "returned", !.ret = "nil"]
    /\ UNCHANGED <<fs, jobs, done, alive, running, stopSignal, listener, wk, stop, conns, calls>>

\* listen: listener.Accept() returns the connection of a client, and
\* newRequest wraps it
listen_Accept ==
    /\ alive
    /\ serve.pc = "Accept"
    /\ listener = "open"
    /\ Len(conns) < MaxConns
    /\ conns' = Append(conns, NewConnState)
    /\ serve' = [serve EXCEPT !.pc = "send", !.req = Len(conns) + 1]
    /\ UNCHANGED <<fs, jobs, done, alive, running, stopSignal, listener, wk, stop, calls>>

\* listen: listener.Accept() returns an error, as it does once the
\* listener is closed and may do at any time; if !s.running { return nil },
\* else continue
listen_AcceptError ==
    /\ alive
    /\ serve.pc = "Accept"
    /\ serve' = IF ~running THEN [serve EXCEPT !.pc = "returned", !.ret = "nil"]
                ELSE [serve EXCEPT !.pc = "loop"]
    /\ UNCHANGED <<fs, jobs, done, alive, running, stopSignal, listener, wk, stop, conns, calls>>

\* listen_send on a channel without a capacity: the fault of an unbounded
\* job queue
listen_send_Unbounded ==
    /\ alive
    /\ serve.pc = "send"
    /\ jobs' = Append(jobs, serve.req)
    /\ serve' = [serve EXCEPT !.pc = "loop", !.req = 0]
    /\ UNCHANGED <<fs, done, alive, running, stopSignal, listener, wk, stop, conns, calls>>

\* listen: s.jobs <- req, which waits while the channel is full
listen_send ==
    /\ alive
    /\ serve.pc = "send"
    /\ Len(jobs) < BacklogSize
    /\ jobs' = Append(jobs, serve.req)
    /\ serve' = [serve EXCEPT !.pc = "loop", !.req = 0]
    /\ UNCHANGED <<fs, done, alive, running, stopSignal, listener, wk, stop, conns, calls>>

\* worker: for s.running
worker_loop(w) ==
    /\ alive
    /\ wk[w].pc = "loop"
    /\ wk' = [wk EXCEPT ![w].pc = IF running THEN "select" ELSE "exited"]
    /\ UNCHANGED <<fs, jobs, done, alive, running, stopSignal, listener, serve, stop, conns, calls>>

\* worker: case <-s.stopSignal: return nil
worker_stopSignal(w) ==
    /\ alive
    /\ wk[w].pc = "select"
    /\ stopSignal > 0
    /\ stopSignal' = stopSignal - 1
    /\ wk' = [wk EXCEPT ![w].pc = "exited"]
    /\ UNCHANGED <<fs, jobs, done, alive, running, listener, serve, stop, conns, calls>>

\* worker_job leaving the request in the channel: the fault of a queue
\* that hands a request to more than one worker
worker_job_Peek(w) ==
    /\ alive
    /\ wk[w].pc = "select"
    /\ jobs # <<>>
    /\ wk' = [wk EXCEPT ![w].pc = "handleRequest", ![w].req = Head(jobs),
                        ![w].early = (stop.pc = "notcalled")]
    /\ conns' = [conns EXCEPT ![Head(jobs)].taken = @ + 1]
    /\ UNCHANGED <<fs, jobs, done, alive, running, stopSignal, listener, serve, stop, calls>>

\* worker_job going back to the loop with the request it received: the
\* fault of a worker that takes a job off the queue and does not handle it
worker_job_Drops(w) ==
    /\ alive
    /\ wk[w].pc = "select"
    /\ jobs # <<>>
    /\ jobs' = Tail(jobs)
    /\ wk' = [wk EXCEPT ![w].pc = "loop"]
    /\ conns' = [conns EXCEPT ![Head(jobs)].taken = @ + 1]
    /\ UNCHANGED <<fs, done, alive, running, stopSignal, listener, serve, stop, calls>>

\* worker: case req := <-s.jobs
worker_job(w) ==
    /\ alive
    /\ wk[w].pc = "select"
    /\ jobs # <<>>
    /\ jobs' = Tail(jobs)
    /\ wk' = [wk EXCEPT ![w].pc = "handleRequest", ![w].req = Head(jobs),
                        ![w].early = (stop.pc = "notcalled")]
    /\ conns' = [conns EXCEPT ![Head(jobs)].taken = @ + 1]
    /\ UNCHANGED <<fs, done, alive, running, stopSignal, listener, serve, stop, calls>>

\* worker: s.handleRequest(req), up to its return statement
worker_handleRequest(w) ==
    /\ alive
    /\ wk[w].pc = "handleRequest"
    /\ wk' = [wk EXCEPT ![w].pc = "return",
                        ![w].res = LifeResults[((wk[w].req - 1) % Len(LifeRequests)) + 1, fs]]
    /\ fs' = wk'[w].res.fs
    /\ conns' = [conns EXCEPT ![wk[w].req].out = wk'[w].res.out,
                              ![wk[w].req].handled = TRUE,
                              ![wk[w].req].overStop =
                                  wk[w].early /\ stop.pc # "notcalled"]
    /\ UNCHANGED <<jobs, done, alive, running, stopSignal, listener, serve, stop, calls>>

\* worker: the return of handleRequest with its deferred r.conn.Close();
\* a panic of the handler ends the process
worker_return(w) ==
    /\ alive
    /\ wk[w].pc = "return"
    /\ conns' = [conns EXCEPT ![wk[w].req].closed = @ + wk[w].res.closed]
    /\ alive' = (wk[w].res.st # "panic")
    /\ wk' = [wk EXCEPT ![w].pc = "loop", ![w].req = 0, ![w].res = NoResult]
    /\ UNCHANGED <<fs, jobs, done, running, stopSignal, listener, serve, stop, calls>>

\* Stop: s.running = false
Stop_clearRunning ==
    /\ alive
    /\ stop.pc = "notcalled"
    /\ running' = FALSE
    /\ stop' = [stop EXCEPT !.pc = "Close",
                            !.serving = serve.pc \in {"loop", "Accept", "send"}]
    /\ UNCHANGED <<fs, jobs, done, alive, stopSignal, listener, serve, wk, conns, calls>>

\* Stop closing, with the listener, the connections the workers hold: the
\* fault of a shutdown that cancels the requests in flight
Stop_closeListener_AndConns ==
    /\ alive
    /\ stop.pc = "Close"
    /\ listener # "nil"
    /\ listener' = "closed"
    /\ stop' = [stop EXCEPT !.pc = "push", !.i = 0]
    /\ conns' = [id \in 1..Len(conns) |->
                    IF \E w \in 1..NumWorkers : wk[w].req = id
                    THEN [conns[id] EXCEPT !.closed = @ + 1] ELSE conns[id]]
    /\ UNCHANGED <<fs, jobs, done, alive, running, stopSignal, serve, wk, calls>>

\* Stop: s.listener.Close(); on the nil interface value the call panics
Stop_closeListener ==
    /\ alive
    /\ stop.pc = "Close"
    /\ IF listener = "nil"
       THEN /\ alive' = FALSE
            /\ stop' = [stop EXCEPT !.pc = "panic"]
            /\ UNCHANGED listener
       ELSE /\ listener' = "closed"
            /\ stop' = [stop EXCEPT !.pc = "push", !.i = 0]
            /\ UNCHANGED alive
    /\ UNCHANGED <<fs, jobs, done, running, stopSignal, serve, wk, conns, calls>>

\* Stop pushing one stop signal fewer than there are workers: the fault of
\* a shutdown that leaves an idle worker waiting
Stop_push_Short ==
    /\ alive
    /\ stop.pc = "push"
    /\ IF stop.i < NumWorkers - 1
       THEN /\ stopSignal < NumWorkers
            /\ stopSignal' = stopSignal + 1
            /\ stop' = [stop EXCEPT !.i = stop.i + 1]
       ELSE /\ stop' = [stop EXCEPT !.pc = "returned"]
            /\ UNCHANGED stopSignal
    /\ UNCHANGED <<fs, jobs, done, alive, running, listener, serve, wk, conns, calls>>

\* Stop: s.stopSignal <- struct{}{}, once per turn of the loop, waiting
\* while the channel is full; then the log file is closed and Stop returns
Stop_push ==
    /\ alive
    /\ stop.pc = "push"
    /\ IF stop.i < NumWorkers
       THEN /\ stopSignal < NumWorkers
            /\ stopSignal' = stopSignal + 1
            /\ stop' = [stop EXCEPT !.i = stop.i + 1]
       ELSE /\ stop' = [stop EXCEPT !.pc = "returned"]
            /\ UNCHANGED stopSignal
    /\ UNCHANGED <<fs, jobs, done, alive, running, listener, serve, wk, conns, calls>>

\* the steps of the goroutine of Serve, but for the arrival of a client
ServeSteps ==
    \/ Serve_setRunning
    \/ Serve_make
    \/ Serve_spawn
    \/ listen_tlsListen
    \/ listen_store
    \/ listen_loop
    \/ listen_AcceptError
    \/ listen_send

\* the steps of worker w
WorkerSteps(w) ==
    \/ worker_loop(w)
    \/ worker_stopSignal(w)
    \/ worker_job(w)
    \/ worker_handleRequest(w)
    \/ worker_return(w)

\* the steps of Stop once it is called
StopSteps ==
    \/ Stop_closeListener
    \/ Stop_push

ServeNext ==
    \/ ServeSteps
    \/ listen_Accept
    \/ \E w \in 1..NumWorkers : WorkerSteps(w)
    \/ Stop_clearRunning
    \/ StopSteps

ServeSpec == ServeInit /\ [][ServeNext]_vars

\* the number of connections the clients open in the behaviours that are
\* checked for progress
FairConns == 2

\* listen_Accept while fewer than FairConns clients have connected
listen_AcceptFew == Len(conns) < FairConns /\ listen_Accept

\* the steps of a serving server that FairConns clients connect to
FairServeNext ==
    \/ ServeSteps
    \/ listen_AcceptFew
    \/ \E w \in 1..NumWorkers : WorkerSteps(w)
    \/ Stop_clearRunning
    \/ StopSteps

\* every goroutine that can take a step eventually takes one; no client
\* has to connect and Stop need not be called
FairServeSpec ==
    /\ ServeInit /\ [][FairServeNext]_vars
    /\ WF_vars(ServeSteps)
    /\ \A w \in 1..NumWorkers : WF_vars(WorkerSteps(w))
    /\ WF_vars(StopSteps)
(***************************************************************************)
(* The vocabulary of the properties.                                       *)
(***************************************************************************)
\* the requests handled so far, each with the filesystem before and the
\* result of handleRequest
Handled == {done[i] : i \in 1..Len(done)}

\* the request is framed as the protocol says: the header line, and length
\* lines that are the decimal lengths of the arg block and of the payload
WellFormed(q) ==
    /\ q.hdr = Header
    /\ q.alen = FormatInt(Len(q.args))
    /\ q.plen = FormatInt(Len(q.payload))
    /\ q.sends = {} /\ q.reads = {}

\* the verb of the request as the server looks it up
Verb(q) == ToLower(q.verb)

PathVerbs == {V_create, V_mkdir, V_read, V_list, V_stat, V_write, V_remove, V_move}

WriteVerbs == {V_create, V_mkdir, V_write, V_remove, V_move}

\* the key is in the key table and the peer's address, lower-cased, is
\* among the key's allowed addresses
Known(q) ==
    /\ q.key \in DOMAIN ServerAuth
    /\ ToLower(q.addr) \in ServerAuth[q.key].allowedIPs

KeyCanWrite(q) == ServerAuth[q.key].permissions.CanWrite

\* the drive is among the key's allowed drives and is configured
DriveUsable(q) ==
    /\ DriveAllowed(ServerAuth[q.key].permissions, q.drive)
    /\ q.drive \in DOMAIN ServerDrives

\* the key may use the verb: every verb but the mutating ones is open to
\* every key
MayUse(q) == Verb(q) \in WriteVerbs => KeyCanWrite(q)

\* a FAILED response with its error line, a SUCCESS response with its
\* text, and the start of each
Failed(msg) == Line(Header) \o Line(S_FAILED) \o Line(msg) \o Line(<<"0">>)

Succeeded(text) == Line(Header) \o Line(S_SUCCESS) \o text \o Line(<<"0">>)

IsFailed(out) == HasPrefix(out, Line(Header) \o Line(S_FAILED))

IsSuccess(out) == HasPrefix(out, Line(Header) \o Line(S_SUCCESS))

\* the number of header lines in what the server wrote
HeaderLines(out) ==
    Cardinality({i \in 0..(Len(out) - Len(Line(Header))) :
                    /\ Slice(out, i, i + Len(Line(Header))) = Line(Header)
                    /\ (i = 0 \/ out[i] = NL)})

\* the components of a path
RECURSIVE Components(_)
Components(p) ==
    IF \A i \in 1..Len(p) : p[i] # Sep THEN {p}
    ELSE LET i == CHOOSE j \in 1..Len(p) :
                    p[j] = Sep /\ \A k \in 1..(j - 1) : p[k] # Sep
         IN  {Take(p, i - 1)} \cup Components(Drop(p, i))

\* the lexical normalization of the path has a ".." component
DotDot(p) == <<".", ".">> \in Components(Clean(p))

(***************************************************************************)
(* C1.  Every well-formed request gets exactly one response, whose first   *)
(* line is the header and whose second line is SUCCESS or FAILED, and the  *)
(* connection is closed; this includes the requests whose filesystem       *)
(* operation fails.                                                        *)
(***************************************************************************)
C1_OneResponse ==
    \A e \in Handled :
        WellFormed(e.conn.q) =>
            /\ IsSuccess(e.res.out) \/ IsFailed(e.res.out)
            /\ HeaderLines(e.res.out) = 1
            /\ e.res.closed = 1

(***************************************************************************)
(* C2.  Authentication succeeds exactly when the key is in the key table   *)
(* and the peer's lower-cased address is among its allowed addresses;      *)
(* when it fails the server performs no drive operation and replies        *)
(* FAILED with "invalid authentication key: <key>", whatever the verb and  *)
(* whichever of the two conditions failed.                                 *)
(***************************************************************************)
C2_Authentication ==
    \A e \in Handled :
        WellFormed(e.conn.q) =>
            /\ (e.res.route = "authfail") <=> ~Known(e.conn.q)
            /\ ~Known(e.conn.q) =>
                   /\ e.res.ops = <<>>
                   /\ e.res.fs = e.before
                   /\ e.res.out = Failed(E_InvalidKey \o e.conn.q.key)

(***************************************************************************)
(* C3.  Every host path a drive operation hands to the operating system    *)
(* lies inside the root of its drive: it is the root or a path below it,   *)
(* whatever ".", "..", doubled or leading separators the client path has.  *)
(***************************************************************************)
C3_InsideRoot ==
    \A e \in Handled :
        \A i \in 1..Len(e.res.ops) :
            \A j \in 1..Len(e.res.ops[i].hp) :
                Within(e.res.ops[i].root, e.res.ops[i].hp[j])

\* a client path with ".." in it was accepted and resolved
C3_Witness ==
    \E e \in Handled :
        /\ Contains(e.conn.q.path, <<".", ".">>)
        /\ \E i \in 1..Len(e.res.ops) : e.res.ops[i].hp # <<>>

(***************************************************************************)
(* C4.  A known key on a drive it may use, with write permission where     *)
(* the verb needs it, sending a path-taking verb with a path whose         *)
(* normalization has a ".." component (for move: the source or the         *)
(* destination) gets FAILED with "path is invalid: <path>", and nothing    *)
(* on the drives changes.                                                  *)
(***************************************************************************)
\* the paths of the request: the reply names the one the drive refused
\* (for move the source, when the drive refuses it, else the destination)
PathsOf(q) == IF Verb(q) = V_move THEN {q.path, q.dest} ELSE {q.path}

EscapingRequest(q) ==
    /\ WellFormed(q) /\ Known(q) /\ Verb(q) \in PathVerbs
    /\ DriveUsable(q) /\ MayUse(q)
    /\ DotDot(q.path) \/ (Verb(q) = V_move /\ DotDot(q.dest))

C4_DotDotRejected ==
    \A e \in Handled :
        EscapingRequest(e.conn.q) =>
            /\ \E p \in PathsOf(e.conn.q) : e.res.out = Failed(E_PathInvalid \o p)
            /\ DotDot(e.conn.q.path) => e.res.out = Failed(E_PathInvalid \o e.conn.q.path)
            /\ e.res.fs = e.before

\* a move whose destination alone escapes was rejected
C4_Witness ==
    \E e \in Handled :
        /\ EscapingRequest(e.conn.q)
        /\ Verb(e.conn.q) = V_move
        /\ ~DotDot(e.conn.q.path)
        /\ e.res.out = Failed(E_PathInvalid \o e.conn.q.dest)

(***************************************************************************)
(* C5.  A known key without write permission gets FAILED with "no write    *)
(* permissions" for create, mkdir, write, remove and move, whatever the    *)
(* drive and the path, and nothing on the drives changes; ping, drives,    *)
(* read, list and stat never answer "no write permissions".                *)
(***************************************************************************)
C5_NoWritePermission ==
    \A e \in Handled :
        /\ (/\ WellFormed(e.conn.q) /\ Known(e.conn.q)
            /\ ~KeyCanWrite(e.conn.q) /\ Verb(e.conn.q) \in WriteVerbs)
           => /\ e.res.out = Failed(E_NoWrite)
              /\ e.res.ops = <<>>
              /\ e.res.fs = e.before
        /\ Verb(e.conn.q) \in Commands \ WriteVerbs
           => e.res.out # Failed(E_NoWrite)

\* a write with a payload by a key without write permission was refused
C5_Witness ==
    \E e \in Handled :
        /\ WellFormed(e.conn.q) /\ Known(e.conn.q) /\ ~KeyCanWrite(e.conn.q)
        /\ Verb(e.conn.q) = V_write
        /\ e.conn.q.payload # <<>>
        /\ e.res.out = Failed(E_NoWrite)

(***************************************************************************)
(* C6.  A known key sending a path-taking verb that names a drive outside  *)
(* its allowed drives, or an allowed drive that is not configured, gets    *)
(* FAILED with "drive not allowed: <name>" and no filesystem operation     *)
(* runs; the reply is the same in the two cases.                           *)
(***************************************************************************)
DriveRefused(e) ==
    /\ e.res.out = Failed(E_DriveNotAllowed \o e.conn.q.drive)
    /\ e.res.ops = <<>>
    /\ e.res.fs = e.before

\* as stated: for every known key
C6_DriveNotAllowed ==
    \A e \in Handled :
        (/\ WellFormed(e.conn.q) /\ Known(e.conn.q)
         /\ Verb(e.conn.q) \in PathVerbs /\ ~DriveUsable(e.conn.q))
        => DriveRefused(e)

\* C6, amended: for the keys that have write permission where the verb
\* needs it (the others are answered "no write permissions" first)
C6_DriveNotAllowedIfMayUse ==
    \A e \in Handled :
        (/\ WellFormed(e.conn.q) /\ Known(e.conn.q) /\ MayUse(e.conn.q)
         /\ Verb(e.conn.q) \in PathVerbs /\ ~DriveUsable(e.conn.q))
        => DriveRefused(e)

\* an allowed drive that is not configured was refused
C6_Witness ==
    \E e \in Handled :
        /\ WellFormed(e.conn.q) /\ Known(e.conn.q) /\ MayUse(e.conn.q)
        /\ Verb(e.conn.q) \in PathVerbs
        /\ DriveAllowed(ServerAuth[e.conn.q.key].permissions, e.conn.q.drive)
        /\ e.conn.q.drive \notin DOMAIN ServerDrives
        /\ DriveRefused(e)

(***************************************************************************)
(* C7.  A successful write of a payload to a path, followed by a read of   *)
(* the same path, returns the payload byte for byte, however the           *)
(* transport fragments the request.                                        *)
(***************************************************************************)
C7_WriteReadRoundTrip ==
    \A i \in 1..Len(done) : \A j \in (i + 1)..Len(done) :
        LET w == done[i]
            r == done[j]
        IN  (/\ WellFormed(w.conn.q) /\ WellFormed(r.conn.q)
             /\ Verb(w.conn.q) = V_write /\ Verb(r.conn.q) = V_read
             /\ w.conn.q.drive = r.conn.q.drive /\ w.conn.q.path = r.conn.q.path
             /\ j = i + 1
             /\ w.res.out = Succeeded(<<>>)
             /\ IsSuccess(r.res.out))
            => r.res.out = Line(Header) \o Line(S_SUCCESS)
                           \o Line(FormatInt(Len(w.conn.q.payload)))
                           \o w.conn.q.payload

(***************************************************************************)
(* C8.  A successful read of a file of S bytes sends the length line S     *)
(* and then exactly the S bytes of the file.                               *)
(***************************************************************************)
C8_ReadSendsWholeFile ==
    \A e \in Handled :
        (/\ WellFormed(e.conn.q) /\ Verb(e.conn.q) = V_read
         /\ e.res.st = "ok" /\ IsSuccess(e.res.out))
        => LET data == e.before[e.res.ops[1].hp[1]].data
           IN  e.res.out = Line(Header) \o Line(S_SUCCESS)
                           \o Line(FormatInt(Len(data))) \o data

(***************************************************************************)
(* C9.  On every path that ends in a FAILED reply the server has read the  *)
(* whole request, the arg block and the payload included, before it        *)
(* replies.                                                                *)
(***************************************************************************)
C9_RejectionReadsRequest ==
    \A e \in Handled :
        (WellFormed(e.conn.q) /\ IsFailed(e.res.out))
        => e.res.rd.pos = Len(e.conn.wire)

(***************************************************************************)
(* C10.  A request with another header line, with an arg-length or         *)
(* payload-length line that is no decimal number, or with a payload        *)
(* shorter than announced never creates, changes, removes or moves         *)
(* anything on a drive.                                                    *)
(***************************************************************************)
IsDecimal(s) ==
    /\ Len(s) > 0
    /\ \A i \in 1..Len(s) : \E d \in 1..10 : s[i] = Digits[d]

Malformed(q) ==
    \/ q.hdr # Header
    \/ ~IsDecimal(q.alen)
    \/ ~IsDecimal(q.plen)
    \/ ParseInt(q.plen, 10).val > Len(q.payload)

C10_MalformedNeverMutates ==
    \A e \in Handled : Malformed(e.conn.q) => e.res.fs = e.before

(***************************************************************************)
(* Errors of the filesystem and the form of the responses.                 *)
(***************************************************************************)
\* the requests that reach the drive operation of their verb
ReachesDrive(q) ==
    WellFormed(q) /\ Known(q) /\ Verb(q) \in PathVerbs /\ MayUse(q) /\ DriveUsable(q)

\* the text of an error, <<>> when there is none
ErrOf(r) == IF r.ok THEN <<>> ELSE r.err

\* the error package os answers the drive operations of request q with on
\* filesystem f, <<>> when they succeed or the path never reaches package os
FsError(q, f) ==
    LET root == ServerDrives[q.drive]
        h    == getHostPath(root, q.path)
        st   == osStat(f, h.path)
    IN  IF ~h.ok THEN <<>>
        ELSE CASE Verb(q) = V_create -> ErrOf(osCreate(f, h.path))
               [] Verb(q) = V_mkdir  -> ErrOf(drive_CreateDirectory(root, f, q.path))
               [] Verb(q) = V_remove -> ErrOf(drive_Remove(root, f, q.path))
               [] Verb(q) = V_list   -> ErrOf(drive_ReadDir(root, f, q.path))
               [] Verb(q) = V_stat   -> ErrOf(st)
               [] Verb(q) = V_move   ->
                    IF getHostPath(root, q.dest).ok
                    THEN ErrOf(drive_Move(root, f, q.path, q.dest)) ELSE <<>>
               [] Verb(q) = V_read   ->
                    IF ~st.ok THEN st.err
                    ELSE IF IsDirAt(f, h.path) THEN <<>>
                    ELSE ErrOf(osOpenRead(f, h.path))
               [] Verb(q) = V_write  ->
                    IF ~st.ok THEN st.err
                    ELSE IF IsDirAt(f, h.path) THEN <<>>
                    ELSE ErrOf(osCreate(f, h.path))

\* C11: for every verb, when the drive operation fails with an error of the
\* filesystem, the reply is FAILED with the text of the error as its one
\* message line; write when drive.Write fails and read when the file cannot
\* be opened after its size was determined included
C11_FsErrorsReported ==
    \A e \in Handled :
        (ReachesDrive(e.conn.q) /\ FsError(e.conn.q, e.before) # <<>>)
            => e.res.out = Failed(FsError(e.conn.q, e.before))

\* the same for the verbs other than write and read
C11_ButWriteRead ==
    \A e \in Handled :
        (ReachesDrive(e.conn.q) /\ Verb(e.conn.q) \notin {V_write, V_read}
         /\ FsError(e.conn.q, e.before) # <<>>)
            => e.res.out = Failed(FsError(e.conn.q, e.before))

\* the part of a response between its two first lines and its trailer
BodyOf(out, status) ==
    SubSeq(out, Len(Line(Header) \o Line(status)) + 1, Len(out) - Len(Line(<<"0">>)))

\* one line: bytes other than the newline, then a newline
IsLine(s) ==
    /\ Len(s) >= 1
    /\ s[Len(s)] = NL
    /\ \A i \in 1..(Len(s) - 1) : s[i] # NL

\* C12: every FAILED response is exactly four lines and nothing else: the
\* header, FAILED, one line of error message and the trailer length line 0
C12_FailedFourLines ==
    \A e \in Handled :
        IsFailed(e.res.out) =>
            /\ e.res.out = Line(Header) \o Line(S_FAILED)
                           \o BodyOf(e.res.out, S_FAILED) \o Line(<<"0">>)
            /\ IsLine(BodyOf(e.res.out, S_FAILED))

\* a FAILED response whose message carries text of the client and of the
\* filesystem
C12_Witness ==
    \E e \in Handled :
        /\ IsFailed(e.res.out)
        /\ e.res.ops # <<>>
        /\ Contains(e.res.out, e.conn.q.path)
        /\ Len(e.conn.q.path) > 1

\* the empty-bodied verbs
EmptyBodied == {V_create, V_mkdir, V_write, V_remove, V_move}

\* C13: every SUCCESS response to a verb other than read is the header, the
\* SUCCESS line, the body of the verb (empty for create, mkdir, write,
\* remove and move, the line PONG for ping, whole lines for drives, list and
\* stat) and the trailer length line 0, with no byte after it
C13_SuccessForm ==
    \A e \in Handled :
        (IsSuccess(e.res.out) /\ e.res.command # V_read) =>
            /\ e.res.out = Succeeded(BodyOf(e.res.out, S_SUCCESS))
            /\ e.res.command \in EmptyBodied => e.res.out = Succeeded(<<>>)
            /\ e.res.command = V_ping => e.res.out = Succeeded(Line(S_PONG))
            /\ e.res.command = V_stat => IsLine(BodyOf(e.res.out, S_SUCCESS))
            /\ e.res.command \in {V_drives, V_list} =>
                   BodyOf(e.res.out, S_SUCCESS)[Len(BodyOf(e.res.out, S_SUCCESS))] = NL

\* a write of a payload answered SUCCESS
C13_Witness ==
    \E e \in Handled :
        /\ e.res.command = V_write
        /\ e.conn.q.payload # <<>>
        /\ e.res.out = Succeeded(<<>>)

\* C14: when the first line of a connection is not the header, the server
\* writes no byte, reads no further line, invokes neither authentication
\* nor a drive operation, and closes the connection
C14_BadHeaderSilent ==
    \A e \in Handled :
        e.conn.q.hdr # Header =>
            /\ e.res.out = <<>>
            /\ e.res.rd.pos = Len(Line(e.conn.q.hdr))
            /\ e.res.route = "badheader"
            /\ e.res.ops = <<>>
            /\ e.res.fs = e.before
            /\ e.res.closed = 1

\* a request that is valid but for its header line, delivered with the
\* header line in two reads
C14_Witness ==
    \E e \in Handled :
        /\ e.conn.q.hdr # Header
        /\ Known(e.conn.q)
        /\ KeyCanWrite(e.conn.q)
        /\ Verb(e.conn.q) = V_create
        /\ e.conn.cuts = {3}
        /\ e.res.out = <<>>

\* C15: authentication comes first: a known key with a verb outside the
\* catalogue gets FAILED "invalid command <verb>" after the arg block and
\* the payload are consumed, an unknown key gets the authentication error
\* whatever its verb, and no drive operation runs for an unknown key
C15_AuthBeforeVerb ==
    \A e \in Handled :
        WellFormed(e.conn.q) =>
            /\ (Known(e.conn.q) /\ Verb(e.conn.q) \notin Commands) =>
                   /\ e.res.out = Failed(E_InvalidCommand \o Verb(e.conn.q))
                   /\ e.res.rd.pos = Len(e.conn.wire)
            /\ ~Known(e.conn.q) =>
                   /\ e.res.out = Failed(E_InvalidKey \o e.conn.q.key)
                   /\ e.res.ops = <<>>

\* the same for the requests the transport delivers in one read
C15_WhenWhole ==
    \A e \in Handled :
        (WellFormed(e.conn.q) /\ e.conn.cuts = {}) =>
            /\ (Known(e.conn.q) /\ Verb(e.conn.q) \notin Commands) =>
                   /\ e.res.out = Failed(E_InvalidCommand \o Verb(e.conn.q))
                   /\ e.res.rd.pos = Len(e.conn.wire)
            /\ ~Known(e.conn.q) =>
                   /\ e.res.out = Failed(E_InvalidKey \o e.conn.q.key)
                   /\ e.res.ops = <<>>

(***************************************************************************)
(* The serving server: connections, the job queue, the workers and Stop.   *)
(***************************************************************************)
\* the connections accepted so far
Accepted == 1..Len(conns)

\* the workers inside handleRequest
Busy == {w \in 1..NumWorkers : wk[w].pc \in {"handleRequest", "return"}}

\* connection id is held by a worker that is inside handleRequest
BeingHandled(id) == \E w \in Busy : wk[w].req = id

\* C16: every connection a worker starts handling is closed exactly once,
\* when handleRequest returns, on every path, and never before its response
\* bytes are written
C16_ClosedOnce ==
    \A id \in Accepted :
        /\ conns[id].closed <= 1
        /\ conns[id].closed = 1 => conns[id].handled /\ ~BeingHandled(id)
        /\ BeingHandled(id) => conns[id].closed = 0
        /\ (conns[id].taken >= 1 /\ ~BeingHandled(id)) => conns[id].closed = 1

\* four connections handled and closed: one answered SUCCESS, one FAILED,
\* one with a wrong first line, one with a length line that does not parse
C16_Witness ==
    /\ Len(conns) >= 4
    /\ \A id \in 1..4 : conns[id].closed = 1
    /\ IsSuccess(conns[1].out)
    /\ IsFailed(conns[2].out)
    /\ conns[3].out = <<>>
    /\ conns[4].out = <<>>

\* the accepted connections that are queued, being handed over or being
\* handled
InFlight ==
    Len(jobs) + (IF serve.pc = "send" THEN 1 ELSE 0) + Cardinality(Busy)

\* C17: the job queue never holds more than backlog requests; while it is
\* full and the accept loop waits on its send no connection is accepted;
\* the accepted connections that are not yet closed are those queued, being
\* handed over or being handled, at most backlog + workers + 1
C17_Backpressure ==
    /\ [](/\ Len(jobs) <= BacklogSize
          /\ InFlight <= BacklogSize + NumWorkers + 1
          /\ Cardinality({id \in Accepted : conns[id].closed = 0}) = InFlight)
    /\ [][serve.pc = "send" => Len(conns') = Len(conns)]_vars

\* the queue full, a connection waiting to be handed over and every worker
\* busy
C17_Witness ==
    /\ Len(jobs) = BacklogSize
    /\ serve.pc = "send"
    /\ Cardinality(Busy) = NumWorkers

\* C18: a request on the job queue is taken by at most one worker and
\* handled at most once, a worker handles one request at a time, and the
\* requests being handled are never more than the workers
C18_AtMostOnce ==
    /\ \A id \in Accepted : conns[id].taken <= 1
    /\ \A i, j \in 1..Len(jobs) : i # j => jobs[i] # jobs[j]
    /\ \A i \in 1..Len(jobs) : conns[jobs[i]].taken = 0
    /\ \A v, w \in Busy : v # w => wk[v].req # wk[w].req
    /\ \A w \in 1..NumWorkers : w \notin Busy => wk[w].req = 0
    /\ Cardinality({id \in Accepted : conns[id].taken >= 1 /\ conns[id].closed = 0})
           <= NumWorkers

\* every worker handling a request of its own
C18_Witness ==
    /\ Cardinality(Busy) = NumWorkers
    /\ Cardinality({wk[w].req : w \in Busy}) = NumWorkers
    /\ \E id \in Accepted : conns[id].closed = 1

\* Stop was called while the accept loop was running
StoppedWhileServing == stop.pc # "notcalled" /\ stop.serving

\* C19: after Stop is called on a serving server the accept loop ends and
\* Serve returns nil, whatever the accept loop was doing
C19_ServeReturns ==
    StoppedWhileServing ~> (serve.pc = "returned" /\ serve.ret = "nil")

\* C20: Stop does not interrupt a request a worker is handling: no step of
\* Stop changes a connection, a worker or the filesystem, and a worker
\* inside handleRequest leaves it only by writing its response and then
\* closing the connection itself
C20_StopLeavesHandlers ==
    [][/\ stop' # stop => (conns' = conns /\ wk' = wk /\ fs' = fs /\ jobs' = jobs)
       /\ \A w \in 1..NumWorkers :
              /\ (wk[w].pc = "handleRequest" /\ wk'[w] # wk[w]) =>
                     /\ wk'[w].pc = "return"
                     /\ conns'[wk[w].req].handled
                     /\ conns'[wk[w].req].closed = 0
              /\ (wk[w].pc = "return" /\ wk'[w] # wk[w]) =>
                     conns'[wk[w].req].closed = 1
       /\ \A id \in Accepted :
              conns'[id].closed # conns[id].closed =>
                  \E w \in 1..NumWorkers : wk[w].pc = "return" /\ wk[w].req = id]_vars

\* a request taken before Stop was called, handled after, answered and
\* closed once Stop has returned
C20_Witness ==
    /\ stop.pc = "returned"
    /\ \E id \in Accepted :
           /\ conns[id].overStop
           /\ conns[id].closed = 1
           /\ conns[id].out # <<>>

\* the workers that have left their loop
Exited == {w \in 1..NumWorkers : wk[w].pc = "exited"}

\* C21: after Stop is called on a serving server every worker leaves its
\* loop, and Stop never waits on the stop channel: whenever it is about to
\* push a stop signal the channel has room
C21_WorkersExit ==
    /\ StoppedWhileServing ~> (Exited = 1..NumWorkers)
    /\ [](stop.pc = "push" /\ stop.i < NumWorkers => stopSignal < NumWorkers)

\* Stop has returned after pushing every stop signal; one worker left on a
\* stop signal, another after the handler it was in when Stop was called
C21_Witness ==
    /\ stop.pc = "returned"
    /\ stop.serving
    /\ Exited = 1..NumWorkers
    /\ stopSignal >= 1
    /\ \E id \in Accepted : conns[id].overStop /\ conns[id].closed = 1

\* the host path of the request's client path on its drive
HostPathOf(q) == getHostPath(ServerDrives[q.drive], q.path)

\* a write of announced length 0 with nothing after the length line, by a
\* key that may write, on a drive it may use, of a path the drive accepts
\* and os.Create can open in filesystem f
ZeroWrite(q, f) ==
    /\ WellFormed(q) /\ Known(q)
    /\ Verb(q) = V_write
    /\ q.payload = <<>>
    /\ KeyCanWrite(q) /\ DriveUsable(q)
    /\ HostPathOf(q).ok
    /\ osCreate(f, HostPathOf(q).path).ok

\* the request was answered SUCCESS with an empty body and left the file
\* of its path empty
EmptiedFile(e) ==
    /\ e.res.out = Succeeded(<<>>)
    /\ HostPathOf(e.conn.q).path \in DOMAIN e.res.fs
    /\ e.res.fs[HostPathOf(e.conn.q).path] = FileEntry(<<>>, "rw")

\* C22: a write of announced length 0, by a key with write permission, of
\* a valid path on an allowed drive leaves the file existing with length 0,
\* whether it was absent or present, and replies SUCCESS with an empty body
C22_ZeroLengthWrite ==
    \A e \in Handled : ZeroWrite(e.conn.q, e.before) => EmptiedFile(e)

\* what holds of C22: the file that is present is truncated and the reply
\* is SUCCESS with an empty body; the file that is absent is refused with
\* the error of Stat and is not created
C22_PresentOnly ==
    \A e \in Handled :
        ZeroWrite(e.conn.q, e.before) =>
            IF HostPathOf(e.conn.q).path \in DOMAIN e.before
            THEN EmptiedFile(e)
            ELSE /\ IsFailed(e.res.out)
                 /\ e.res.fs = e.before

\* the lines of a list of strings, one after the other
RECURSIVE LinesOf(_)
LinesOf(list) == IF list = <<>> THEN <<>> ELSE Line(Head(list)) \o LinesOf(Tail(list))

\* a drives request by a key of the server from its address
DrivesAsked(q) == WellFormed(q) /\ Known(q) /\ Verb(q) = V_drives

\* the allowed drives of the key of the request
DrivesOf(q) == ServerAuth[q.key].permissions.AllowedDrives

\* C23: the body of the drives response is the line N, then the N lines of
\* the key's allowed drives in list order, then the trailer line 0, for
\* every N >= 0 and whatever the key's write flag
C23_DrivesBody ==
    \A e \in Handled :
        DrivesAsked(e.conn.q) =>
            e.res.out = Succeeded(Line(FormatInt(Len(DrivesOf(e.conn.q))))
                                  \o LinesOf(DrivesOf(e.conn.q)))

\* what holds of C23: the body is as stated for a key with at least one
\* allowed drive; for a key with none it is the line 0 and an empty line
C23_ButEmptyList ==
    \A e \in Handled :
        DrivesAsked(e.conn.q) =>
            e.res.out = Succeeded(Line(FormatInt(Len(DrivesOf(e.conn.q))))
                                  \o (IF DrivesOf(e.conn.q) = <<>> THEN Line(<<>>)
                                      ELSE LinesOf(DrivesOf(e.conn.q))))

\* the connection with its verb line in lower case
LowerVerb(c) == Conn([c.q EXCEPT !.verb = ToLower(c.q.verb)], c.cuts)

\* C24: a request whose verb line is a letter-case variant of a catalogue
\* verb is dispatched to the handler of the lowercase verb and gets the
\* response, and has the effect, of the same request with the verb in
\* lower case
C24_VerbCaseInsensitive ==
    \A e \in Handled :
        (/\ e.conn.q.hdr = Header
         /\ e.conn.q.verb # ToLower(e.conn.q.verb)
         /\ ToLower(e.conn.q.verb) \in Commands)
        => /\ e.res.command = ToLower(e.conn.q.verb)
           /\ e.res.route \in {"command", "authfail"}
           /\ e.res.out = handleRequest(LowerVerb(e.conn), e.before).out
           /\ e.res.fs = handleRequest(LowerVerb(e.conn), e.before).fs
           /\ e.res.st = handleRequest(LowerVerb(e.conn), e.before).st

\* a move sent as MOVE and a write sent as Write, both carried out
C24_Witness ==
    \E e \in Handled :
        /\ e.conn.q.verb \in {<<"M", "O", "V", "E">>, <<"W", "r", "i", "t", "e">>}
        /\ e.res.route = "command"
        /\ e.res.out = Succeeded(<<>>)
        /\ e.res.fs # e.before

\* the client of the connection stopped sending, or stopped reading
Stopped(c) == c.q.sends # {} \/ c.q.reads # {}

\* what handleRequest does when the peer reads all of the reply
Unstopped(e) == handleRequest([e.conn EXCEPT !.reads = {}], e.before)

\* handleRequest returned on a connection whose client stopped: with the
\* error of the read that found nothing more to read, or of the write the
\* peer did not take, or without an error when it needed neither; the
\* connection is closed
Unwound(e) ==
    /\ e.res.closed = 1
    /\ e.res.st \in {"ok", "err"}
    /\ e.conn.q.sends # {} =>
           /\ e.res.st = "err" => e.res.rd.w = Len(e.conn.wire)
           /\ e.res.st = "ok" => IsSuccess(e.res.out) \/ IsFailed(e.res.out)
    /\ \A n \in e.conn.q.reads :
           /\ Len(e.res.out) <= n
           /\ e.res.out = Take(Unstopped(e).out, Len(e.res.out))
           /\ Len(Unstopped(e).out) > n => e.res.st = "err"

\* C27: a handler does not wait on its peer for ever: when the client stops
\* sending or stops reading, the read or write that waits fails, the
\* handler returns, the connection is closed and the worker goes on to its
\* next job
C27_TimeoutUnwinds ==
    /\ [](\A e \in Handled : Stopped(e.conn) => Unwound(e))
    /\ (Len(done) = 1 /\ Stopped(done[1].conn) /\ jobs # <<>>)
           ~> (Len(done) = 2 /\ done[2].res.out = Succeeded(Line(S_PONG)))

\* a write whose client stopped in the middle of the payload, returned
\* with the error and closed, and the ping after it answered
C27_Witness ==
    /\ Len(done) = 2
    /\ Verb(done[1].conn.q) = V_write
    /\ done[1].conn.q.sends = {Len(Wire(done[1].conn.q)) - 1}
    /\ done[1].res.st = "err"
    /\ done[1].res.closed = 1
    /\ done[2].res.out = Succeeded(Line(S_PONG))

\* the request reached drive.Write and os.Create opened the file of its
\* path: the announced size, the position of the first payload byte in the
\* stream, and the file afterwards
WriteOpened(e) ==
    /\ Len(e.res.ops) = 2 /\ e.res.ops[2].op = "Write"
    /\ Len(e.res.ops[2].hp) = 1
    /\ osCreate(e.before, e.res.ops[2].hp[1]).ok
    /\ e.res.st # "panic"

AnnouncedSize(q) == ParseInt(q.plen, 0).val

PayloadStart(q) == Len(Wire(q)) - Len(q.payload)

WrittenFile(e) == e.res.fs[e.res.ops[2].hp[1]].data

\* the reading half of C30: drive.Write never takes a byte of the stream
\* beyond the S announced ones, and has taken exactly S when it succeeds
ReadsWithinSize(e) ==
    /\ e.res.rd.pos <= PayloadStart(e.conn.q) + AnnouncedSize(e.conn.q)
    /\ e.res.st = "ok" =>
           e.res.rd.pos = PayloadStart(e.conn.q) + AnnouncedSize(e.conn.q)

\* C30: drive.Write with announced size S reads exactly S bytes from the
\* source, never past the end of the payload, and writes at most S bytes
\* to the file, for every S and however the source splits its data across
\* reads
C30_WriteWithinSize ==
    \A e \in Handled :
        WriteOpened(e) =>
            /\ ReadsWithinSize(e)
            /\ Len(WrittenFile(e)) <= AnnouncedSize(e.conn.q)

\* what holds of C30: the reads stay within the S bytes and a successful
\* call has read exactly S
C30_ReadsOnly ==
    \A e \in Handled : WriteOpened(e) => ReadsWithinSize(e)

\* the arg-length line of the request is a decimal number, the byte length
\* of the drive and path lines that follow it
ArgLengthRight(q) ==
    /\ IsDecimal(q.alen)
    /\ ParseInt(q.alen, 10).val = Len(q.args)

\* the handler of a path-taking verb went as far as an operation of the
\* drive
Executed(e) ==
    /\ e.res.route = "command"
    /\ e.res.command \in PathVerbs
    /\ e.res.ops # <<>>

\* C29: for every path-taking verb the server honours the announced
\* arg-length: a request is executed only if its arg-length line is a
\* decimal number equal to the byte length of the drive and path lines
\* that follow
C29_ArgLengthHonoured ==
    \A e \in Handled : Executed(e) => ArgLengthRight(e.conn.q)

\* what holds of C29: the handler takes one line after the verb line,
\* whatever it holds, then one line for the drive and one for each path;
\* the response and the filesystem are those of the same request with the
\* right arg-length line
C29_LengthLineIgnored ==
    \A e \in Handled :
        (/\ e.res.route = "command" /\ e.res.command \in PathVerbs
         /\ e.conn.cuts = {} /\ e.conn.q.sends = {})
        => Bind(handleRequest(Conn([e.conn.q EXCEPT
                                       !.alen = FormatInt(Len(e.conn.q.args))], {}),
                              e.before), LAMBDA g :
           /\ e.res.st = g.st
           /\ e.res.out = g.out
           /\ e.res.fs = g.fs)

(***************************************************************************)
(* client/request.go: the request of the client library.  Its reader is a  *)
(* bufio.Reader over conn.Conn as the server's is, so a stream the client  *)
(* reads is a record with wire and cuts as a connection of the server,     *)
(* and request.getString (client/request.go 164-171) is getString above.   *)
(***************************************************************************)
\* the stream of bytes a party reads, with the transport's reads cut at cuts
Stream(bytes, cuts) == [wire |-> bytes, cuts |-> cuts]

\* the beginning of a stream, nothing read yet
AtStart == [pos |-> 0, w |-> 0]

E_InvalidHeader == <<"i", "n", "v", "a", "l", "i", "d", " ", "h", "e", "a", "d", "e", "r">>

E_InvalidStatus == <<"i", "n", "v", "a", "l", "i", "d", " ", "s", "t", "a", "t", "u", "s", " ",
                     "r", "e", "s", "p", "o", "n", "s", "e">>

\* the error of a read that failed (EOF or the deadline)
E_IO == <<"E", "O", "F">>

W_failed == <<"f", "a", "i", "l", "e", "d">>

W_success == <<"s", "u", "c", "c", "e", "s", "s">>

\* the error of strconv for a line that is no number
E_Syntax == <<"i", "n", "v", "a", "l", "i", "d", " ", "s", "y", "n", "t", "a", "x">>

\* a result of the client's request methods: st is "ok" (nil), "err" (an
\* error with text err) or "panic"
Ret(st, err, rd) == [st |-> st, err |-> err, rd |-> rd]

\* request.receiveHeader with the status line compared as it is sent: the
\* fault of a client that accepts only one spelling of the status
receiveHeader_CaseSensitive(c, rd) ==
    Bind(getString(c, rd), LAMBDA header :
    IF ~header.ok THEN Ret("err", E_IO, header.rd)
    ELSE IF header.str # Header THEN Ret("err", E_InvalidHeader, header.rd) ELSE
    Bind(getString(c, header.rd), LAMBDA status :
    IF ~status.ok THEN Ret("err", E_IO, status.rd)
    ELSE IF status.str = S_FAILED
    THEN Bind(getString(c, status.rd), LAMBDA errString :
         IF ~errString.ok THEN Ret("err", E_IO, errString.rd)
         ELSE Ret("err", errString.str, errString.rd))
    ELSE IF status.str # S_SUCCESS THEN Ret("err", E_InvalidStatus, status.rd)
    ELSE Ret("ok", <<>>, status.rd)))

\* request.receiveHeader (client)
receiveHeader(c, rd) ==
    Bind(getString(c, rd), LAMBDA header :
    IF ~header.ok THEN Ret("err", E_IO, header.rd)
    ELSE IF header.str # Header THEN Ret("err", E_InvalidHeader, header.rd) ELSE
    Bind(getString(c, header.rd), LAMBDA status :
    IF ~status.ok THEN Ret("err", E_IO, status.rd)
    ELSE IF ToLower(status.str) = W_failed
    THEN Bind(getString(c, status.rd), LAMBDA errString :
         IF ~errString.ok THEN Ret("err", E_IO, errString.rd)
         ELSE Ret("err", errString.str, errString.rd))
    ELSE IF ToLower(status.str) # W_success THEN Ret("err", E_InvalidStatus, status.rd)
    ELSE Ret("ok", <<>>, status.rd)))

\* the loop of the client's request.consume: n stays 0, the count of a
\* Read is dropped
RECURSIVE client_consumeLoop(_, _, _)
client_consumeLoop(c, rd, len) ==
    IF len < ChunkSize
    THEN IF len < 0 THEN Ret("panic", <<>>, rd)
         ELSE Bind(ReaderRead(c, rd, len), LAMBDA got :
              IF got.ok THEN Ret("ok", <<>>, got.rd) ELSE Ret("err", E_IO, got.rd))
    ELSE Bind(ReaderRead(c, rd, ChunkSize), LAMBDA got :
         IF ~got.ok THEN Ret("err", E_IO, got.rd)
         ELSE client_consumeLoop(c, got.rd, len))

\* request.consume (client)
client_consume(c, rd) ==
    Bind(getString(c, rd), LAMBDA lenStr :
    IF ~lenStr.ok THEN Ret("err", E_IO, lenStr.rd) ELSE
    Bind(ParseInt(lenStr.str, 10), LAMBDA len :
    IF ~len.ok THEN Ret("err", E_Syntax, lenStr.rd)
    ELSE client_consumeLoop(c, lenStr.rd, len.val)))

(***************************************************************************)
(* client/commands.go: the operations of the client library.  Each dials   *)
(* a connection, sends one request, reads the reply and closes.  What an    *)
(* operation sends is a sequence of bytes; what it does with the reply is  *)
(* an operator on the stream c of the server's response, whose result has  *)
(* st, err, the reader rd where the operation stopped reading, and the     *)
(* value val it returns.                                                   *)
(***************************************************************************)
\* request.sendSimpleRequest: header, key, command, the length of the data,
\* the data, and the line 0 for an empty payload
sendSimpleRequest(command, key, data) ==
    sendString(sendString(sendString(sendString(<<>>, Header), key), command),
               FormatInt(Len(data)))
    \o data \o Line(<<"0">>)

\* the sends of client.Write: as sendSimpleRequest, with the length line
\* of the announced size and the bytes of the stream in place of the line 0
sendWrite(key, data, size, stream) ==
    sendString(sendString(sendString(sendString(<<>>, Header), key), V_write),
               FormatInt(Len(data)))
    \o data \o Line(FormatInt(size)) \o stream

E_InvalidResponse == <<"i", "n", "v", "a", "l", "i", "d", " ", "s", "e", "r", "v", "e", "r", " ",
                       "r", "e", "s", "p", "o", "n", "s", "e">>

Val(st, err, rd, val) == [st |-> st, err |-> err, rd |-> rd, val |-> val]

\* the end of every operation: r.consume() and the return of the value
Consumed(c, rd, val) ==
    Bind(client_consume(c, rd), LAMBDA cs :
    IF cs.st # "ok" THEN Val(cs.st, cs.err, cs.rd, <<>>)
    ELSE Val("ok", <<>>, cs.rd, val))

\* client.Create, Mkdir, Write, Remove and Move after their sends:
\* receiveHeader, then consume
client_Create(c) ==
    Bind(receiveHeader(c, AtStart), LAMBDA h :
    IF h.st # "ok" THEN Val(h.st, h.err, h.rd, <<>>)
    ELSE Consumed(c, h.rd, <<>>))

\* client.Ping after its send: the line PONG is read and dropped
client_Ping(c) ==
    Bind(receiveHeader(c, AtStart), LAMBDA h :
    IF h.st # "ok" THEN Val(h.st, h.err, h.rd, <<>>) ELSE
    Bind(getString(c, h.rd), LAMBDA pong :
    IF ~pong.ok THEN Val("err", E_IO, pong.rd, <<>>)
    ELSE Consumed(c, pong.rd, <<>>)))

\* client.Drives after its send: the number of drives, then as many lines
client_Drives(c) ==
    Bind(receiveHeader(c, AtStart), LAMBDA h :
    IF h.st # "ok" THEN Val(h.st, h.err, h.rd, <<>>) ELSE
    Bind(getString(c, h.rd), LAMBDA numDrivesStr :
    IF ~numDrivesStr.ok THEN Val("err", E_IO, numDrivesStr.rd, <<>>) ELSE
    Bind(ParseInt(numDrivesStr.str, 10), LAMBDA numDrives :
    IF ~numDrives.ok THEN Val("err", E_Syntax, numDrivesStr.rd, <<>>)
    ELSE IF numDrives.val < 0 THEN Val("panic", <<>>, numDrivesStr.rd, <<>>) ELSE
    Bind(getStrings(c, numDrivesStr.rd, numDrives.val), LAMBDA drives :
    IF ~drives.ok THEN Val("err", E_IO, drives.rd, <<>>)
    ELSE Consumed(c, drives.rd, drives.lines)))))

\* the loop of client.List: n more lines, each "d <name>" or "f <name>"
RECURSIVE client_ListLoop(_, _, _, _)
client_ListLoop(c, rd, n, items) ==
    IF n = 0 THEN Val("ok", <<>>, rd, items) ELSE
    Bind(getString(c, rd), LAMBDA line :
    IF ~line.ok THEN Val("err", E_IO, line.rd, <<>>)
    ELSE IF Len(line.str) < 2 THEN Val("err", E_InvalidResponse, line.rd, <<>>)
    ELSE client_ListLoop(c, line.rd, n - 1,
                         Append(items, [IsDir |-> line.str[1] = "d",
                                        Name |-> Drop(line.str, 2)])))

\* client.List after its send
client_List(c) ==
    Bind(receiveHeader(c, AtStart), LAMBDA h :
    IF h.st # "ok" THEN Val(h.st, h.err, h.rd, <<>>) ELSE
    Bind(getString(c, h.rd), LAMBDA numItemsStr :
    IF ~numItemsStr.ok THEN Val("err", E_IO, numItemsStr.rd, <<>>) ELSE
    Bind(ParseInt(numItemsStr.str, 10), LAMBDA numItems :
    IF ~numItems.ok THEN Val("err", E_Syntax, numItemsStr.rd, <<>>)
    ELSE IF numItems.val < 0 THEN Val("panic", <<>>, numItemsStr.rd, <<>>) ELSE
    Bind(client_ListLoop(c, numItemsStr.rd, numItems.val, <<>>), LAMBDA items :
    IF items.st # "ok" THEN items
    ELSE Consumed(c, items.rd, items.val)))))

\* client.Stat after its send: the line "d", or "f <size>"
client_Stat(c) ==
    Bind(receiveHeader(c, AtStart), LAMBDA h :
    IF h.st # "ok" THEN Val(h.st, h.err, h.rd, <<>>) ELSE
    Bind(getString(c, h.rd), LAMBDA line :
    IF ~line.ok THEN Val("err", E_IO, line.rd, <<>>)
    ELSE IF Len(line.str) = 0 THEN Val("panic", <<>>, line.rd, <<>>)
    ELSE IF line.str[1] = "d"
    THEN Consumed(c, line.rd, [IsDir |-> TRUE, Size |-> 0])
    ELSE IF Len(line.str) < 2 THEN Val("err", E_InvalidResponse, line.rd, <<>>) ELSE
    Bind(ParseInt(Drop(line.str, 2), 10), LAMBDA size :
    IF ~size.ok THEN Val("err", E_Syntax, line.rd, <<>>)
    ELSE Consumed(c, line.rd, [IsDir |-> FALSE, Size |-> size.val]))))

(***************************************************************************)
(* The client library and the stream primitives at work.  calls holds one  *)
(* call: of request.consume (server) or request.consume (client) on a      *)
(* stream, of request.receiveHeader on a reply, or of an operation of the  *)
(* client library against the server whose filesystem is fs.  ret is <<>>  *)
(* until the call has returned and then holds its result.                  *)
(***************************************************************************)
\* the lengths announced to consume: none, small, around the chunk size
\* and beyond the bufio buffer
ConsumeSizes == {0, 1, 2, ChunkSize - 1, ChunkSize, ChunkSize + 1, BufSize + ChunkSize}

\* a length line N followed by m bytes, delivered at once, with the first
\* byte after the length line in a read of its own, or with the last byte
\* in a read of its own
ConsumeStreams(N, m) ==
    LET bytes == Line(FormatInt(N)) \o Pattern(m)
        start == Len(bytes) - m
    IN  {Stream(bytes, cuts) : cuts \in {{}, {start + 1}, {Len(bytes) - 1}}}

\* the stream holds the N bytes, ends one byte early, or goes on for two
\* bytes more
ConsumeCalls ==
    UNION {{[kind |-> o, n |-> N, c |-> st, ret |-> <<>>] :
               o \in {"consume", "client_consume"},
               st \in UNION {ConsumeStreams(N, m) :
                                 m \in {N, N + 2} \cup ({N - 1} \ {-1})}} :
           N \in ConsumeSizes}

\* status lines in several spellings, and lines that are no status
StatusLines ==
    {S_SUCCESS, W_success, <<"S", "u", "c", "c", "e", "s", "s">>,
     <<"s", "U", "c", "C", "e", "S", "s">>,
     S_FAILED, W_failed, <<"F", "a", "i", "l", "e", "d">>,
     <<"f", "A", "i", "L", "e", "D">>,
     <<"O", "K">>, <<>>, <<"S", "U", "C", "C", "E", "S", "S", "S">>,
     <<"F", "A", "I", "L">>, <<"E", "R", "R", "O", "R">>}

\* replies to receiveHeader: a first line, a status line, a third line and
\* the line 0, delivered at once or byte by byte
HeaderCalls ==
    {[kind |-> "receiveHeader", hdr |-> h, status |-> s, third |-> t,
      c |-> Stream(Line(h) \o Line(s) \o Line(t) \o Line(<<"0">>),
                   IF b THEN 1..(Len(h) + Len(s) + Len(t) + 5) ELSE {}),
      ret |-> <<>>] :
        h \in {Header} \cup BadHeaders, s \in StatusLines,
        t \in {<<"n", "o">>, <<>>, S_PONG}, b \in BOOLEAN}

\* the request a call of the client library means
CallRequest(call) ==
    Request(call.key, call.addr, call.op, call.drive, call.path, call.dest,
            call.payload)

ClientKeys == {<<"k">>, <<"r">>, <<"z">>, <<"x">>}

\* the calls of the client library: every operation with every key, on a
\* drive of the server and on an unknown one, on a file, an empty and a
\* non-empty directory, an absent path and a path that leaves the drive;
\* the request is delivered to the server in each way of Deliveries, the
\* reply to the client at once or byte by byte
LibraryCalls ==
    LET plain(k, v, d, p, data) ==
            [op |-> v, key |-> k, addr |-> <<"a">>, drive |-> d, path |-> p,
             dest |-> <<"n">>, payload |-> data]
        meant == {plain(k, v, <<>>, <<>>, <<>>) : k \in ClientKeys, v \in {V_ping, V_drives}}
                 \cup {plain(k, v, d, p, <<>>) :
                          k \in ClientKeys,
                          v \in {V_create, V_mkdir, V_list, V_stat, V_remove, V_move},
                          d \in {<<"d">>, <<"n">>},
                          p \in {<<"a">>, <<"t">>, <<"s">>, <<"n">>, <<".", ".", "/", "x">>}}
                 \cup {plain(k, V_write, d, p, data) :
                          k \in ClientKeys, d \in {<<"d">>, <<"n">>},
                          p \in {<<"a">>, <<"n">>}, data \in {<<>>, <<"x", "y">>}}
    IN  UNION {{[kind |-> "library", op |-> m.op, key |-> m.key, addr |-> m.addr, drive |-> m.drive,
                 path |-> m.path, dest |-> m.dest, payload |-> m.payload,
                 cuts |-> cuts, bytewise |-> b, ret |-> <<>>] :
                   cuts \in Deliveries(CallRequest(m)), b \in BOOLEAN} :
               m \in meant}

ClientInit ==
    /\ fs = SmallFS
    /\ jobs = <<>>
    /\ done = <<>>
    /\ alive = TRUE
    /\ NotServing
    /\ calls \in {<<call>> : call \in ConsumeCalls \cup HeaderCalls \cup LibraryCalls}

\* the call has not returned yet
Pending(kind) == calls # <<>> /\ calls[1].kind = kind /\ calls[1].ret = <<>>

\* a call of the server's request.consume
call_consume ==
    /\ Pending("consume")
    /\ calls' = <<[calls[1] EXCEPT !.ret = <<consume(calls[1].c, AtStart)>>]>>
    /\ UNCHANGED <<fs, jobs, done, alive, running, stopSignal, listener, serve, wk, stop,
                   conns>>

\* a call of the client's request.consume
call_client_consume ==
    /\ Pending("client_consume")
    /\ calls' = <<[calls[1] EXCEPT !.ret = <<client_consume(calls[1].c, AtStart)>>]>>
    /\ UNCHANGED <<fs, jobs, done, alive, running, stopSignal, listener, serve, wk, stop,
                   conns>>

\* a call of the client's request.receiveHeader
call_receiveHeader ==
    /\ Pending("receiveHeader")
    /\ calls' = <<[calls[1] EXCEPT !.ret = <<receiveHeader(calls[1].c, AtStart)>>]>>
    /\ UNCHANGED <<fs, jobs, done, alive, running, stopSignal, listener, serve, wk, stop,
                   conns>>

\* what the operation sends
ClientSends(call) ==
    IF call.op = V_ping \/ call.op = V_drives
    THEN sendSimpleRequest(call.op, call.key, <<>>)
    ELSE IF call.op = V_move
    THEN sendSimpleRequest(call.op, call.key,
                           call.drive \o <<NL>> \o call.path \o <<NL>> \o call.dest \o <<NL>>)
    ELSE IF call.op = V_write
    THEN sendWrite(call.key, call.drive \o <<NL>> \o call.path \o <<NL>>,
                   Len(call.payload), call.payload)
    ELSE sendSimpleRequest(call.op, call.key, call.drive \o <<NL>> \o call.path \o <<NL>>)

\* what the operation does with the reply c
ClientReads(op, c) ==
    IF op = V_ping THEN client_Ping(c)
    ELSE IF op = V_drives THEN client_Drives(c)
    ELSE IF op = V_list THEN client_List(c)
    ELSE IF op = V_stat THEN client_Stat(c)
    ELSE client_Create(c)

\* the connection of the call as the server has it
CallConn(call) ==
    [q |-> CallRequest(call), wire |-> ClientSends(call), cuts |-> call.cuts,
     addr |-> call.addr, reads |-> {}]

\* an operation of the client library: the client sends, a worker of the
\* server handles the connection, the client reads the reply
client_call(op) ==
    /\ Pending("library")
    /\ calls[1].op = op
    /\ done' = Append(done, [conn |-> CallConn(calls[1]), before |-> fs,
                             res |-> handleRequest(CallConn(calls[1]), fs)])
    /\ fs' = done'[Len(done')].res.fs
    /\ alive' = (done'[Len(done')].res.st # "panic")
    /\ calls' = <<[calls[1] EXCEPT !.ret =
                      <<ClientReads(op, Stream(done'[Len(done')].res.out,
                                               IF calls[1].bytewise
                                               THEN 1..Len(done'[Len(done')].res.out)
                                               ELSE {}))>>]>>
    /\ UNCHANGED <<jobs, running, stopSignal, listener, serve, wk, stop, conns>>

ClientOps == {V_ping, V_drives, V_create, V_mkdir, V_list, V_stat, V_write, V_remove, V_move}

ClientNext ==
    \/ call_consume
    \/ call_client_consume
    \/ call_receiveHeader
    \/ \E op \in ClientOps : client_call(op)

ClientSpec == ClientInit /\ [][ClientNext]_vars

(***************************************************************************)
(* The client library and the stream primitives: properties.               *)
(***************************************************************************)
\* the calls that have returned, each with its result as ret[1]
Returned(kinds) == {calls[i] : i \in {j \in 1..Len(calls) :
                                         calls[j].kind \in kinds /\ calls[j].ret # <<>>}}

\* in a call of consume: the place of the stream after the length line,
\* and the number of bytes the stream holds after it
AfterLength(call) == Len(Line(FormatInt(call.n)))

Available(call) == Len(call.c.wire) - AfterLength(call)

\* consume returned success having removed exactly the N bytes
Drained(call) ==
    /\ call.ret[1].st = "ok"
    /\ call.ret[1].rd.pos = AfterLength(call) + call.n

\* C28: consume (server and client variants) reads one length line N >= 0
\* and then removes exactly N bytes from the stream before returning
\* success, for every N including N at or above the chunk size and when
\* the reader delivers fewer bytes per read than requested; it fails if
\* the stream ends before N bytes arrive, and it always terminates
C28_ConsumeExact ==
    \A call \in Returned({"consume", "client_consume"}) :
        /\ call.ret[1].st \in {"ok", "err"}
        /\ IF Available(call) >= call.n THEN Drained(call)
           ELSE call.ret[1].st = "err"

\* what holds of C28: both variants return, and they drain exactly N bytes
\* when N is below the chunk size and the stream arrives in one read
C28_WhenOneRead ==
    \A call \in Returned({"consume", "client_consume"}) :
        /\ call.ret[1].st \in {"ok", "err"}
        /\ (/\ call.c.cuts = {}
            /\ call.n < ChunkSize
            /\ Available(call) >= call.n) => Drained(call)

\* the status line spells word in some letter case
Spells(status, word) ==
    /\ Len(status) = Len(word)
    /\ \A i \in 1..Len(word) : status[i] = word[i] \/ status[i] = ToUpper(word)[i]

\* receiveHeader returned st with the error text err, having read the
\* first k lines of the reply and nothing after them
StoppedAfter(call, k, st, err) ==
    /\ call.ret[1].st = st
    /\ call.ret[1].err = err
    /\ call.ret[1].rd.pos =
           (IF k >= 1 THEN Len(Line(call.hdr)) ELSE 0)
           + (IF k >= 2 THEN Len(Line(call.status)) ELSE 0)
           + (IF k >= 3 THEN Len(Line(call.third)) ELSE 0)

\* C25: the client accepts the status line in any letter case: on success
\* it goes on to parse the body; on failed it reads exactly one further
\* line and returns it as the error text; on any other status line, or a
\* first line other than DEEPWELL-v0, it returns an error without parsing
\* further
C25_StatusAnyCase ==
    \A call \in Returned({"receiveHeader"}) :
        IF call.hdr # Header THEN StoppedAfter(call, 1, "err", E_InvalidHeader)
        ELSE IF Spells(call.status, W_success) THEN StoppedAfter(call, 2, "ok", <<>>)
        ELSE IF Spells(call.status, W_failed)
        THEN StoppedAfter(call, 3, "err", call.third)
        ELSE StoppedAfter(call, 2, "err", E_InvalidStatus)

\* receiveHeader has returned the error line of a reply whose status is
\* failed in mixed case, delivered byte by byte
C25_Witness ==
    \E call \in Returned({"receiveHeader"}) :
        /\ call.hdr = Header
        /\ call.status = <<"f", "A", "i", "L", "e", "D">>
        /\ call.third = <<"n", "o">>
        /\ call.c.cuts # {}
        /\ call.ret[1].st = "err" /\ call.ret[1].err = <<"n", "o">>

\* the call of the client library, the server's handling of it (the last
\* entry of done) and what the client returned
LibraryDone == IF Returned({"library"}) = {} THEN {} ELSE {done[Len(done)]}

NoNewline(call) ==
    \A s \in {call.key, call.drive, call.path, call.dest} :
        \A i \in 1..Len(s) : s[i] # NL

\* the server read the request the client meant, to its last byte
RequestRead(call, e) ==
    /\ e.conn.wire = Wire(CallRequest(call))
    /\ e.res.rd.pos = Len(e.conn.wire)
    /\ e.res.key = call.key
    /\ e.res.route \in {"command", "authfail"}
    /\ e.res.route = "command" => e.res.command = call.op

\* the client read the reply to its last byte
ReplyRead(call, e) == call.ret[1].rd.pos = Len(e.res.out)

\* C26: for each verb, the request bytes the client library emits for
\* arguments containing no newline are parsed by the server into the same
\* key, verb, drive and path(s) with the server's read position ending
\* exactly at the end of the request; and the client's parsing of the
\* server's reply ends exactly at the end of the response for every
\* outcome of ping, drives, create, mkdir, list, stat, write, remove and
\* move, including empty lists
C26_ClientServerAgree ==
    \A call \in Returned({"library"}) : \A e \in LibraryDone :
        NoNewline(call) => RequestRead(call, e) /\ ReplyRead(call, e)

\* the reply is the SUCCESS reply to drives of a key without drives
NoDrivesReply(e) == e.res.out = Succeeded(Line(<<"0">>) \o Line(<<>>))

\* what holds of C26: the client sends the bytes of the protocol's layout,
\* and the server reads them to the last byte when the request arrives in
\* one read; the client reads a SUCCESS reply to its last byte and returns
\* nil, but for the drives reply of a key without drives, where it takes
\* the empty line for the length line of the trailer and returns an error;
\* of a FAILED reply it returns the error line and leaves the trailer
\* unread
C26_ButFailedAndNoDrives ==
    \A call \in Returned({"library"}) : \A e \in LibraryDone :
        NoNewline(call) =>
            /\ e.conn.wire = Wire(CallRequest(call))
            /\ call.cuts = {} => RequestRead(call, e)
            /\ IF IsFailed(e.res.out)
               THEN /\ call.ret[1].st = "err"
                    /\ e.res.out = Failed(call.ret[1].err)
                    /\ call.ret[1].rd.pos = Len(e.res.out) - Len(Line(<<"0">>))
               ELSE IF NoDrivesReply(e)
               THEN /\ call.ret[1].st = "err" /\ call.ret[1].err = E_Syntax
                    /\ call.ret[1].rd.pos = Len(e.res.out) - Len(Line(<<"0">>))
               ELSE IF IsSuccess(e.res.out)
               THEN call.ret[1].st = "ok" /\ ReplyRead(call, e)
               ELSE e.res.out = <<>> /\ call.ret[1].st = "err"

\* the create request was answered SUCCESS
Created(e) ==
    /\ e.res.route = "command" /\ e.res.command = V_create
    /\ e.res.out = Succeeded(<<>>)

\* C36: after a successful create of path P, P exists as a regular file of
\* length 0 whether or not P existed before: create on an existing file
\* discards its previous contents
C36_CreateTruncates ==
    \A e \in Handled :
        Created(e) =>
            /\ Len(e.res.ops) = 1 /\ Len(e.res.ops[1].hp) = 1
            /\ e.res.ops[1].hp[1] \in DOMAIN e.res.fs
            /\ ~e.res.fs[e.res.ops[1].hp[1]].dir
            /\ e.res.fs[e.res.ops[1].hp[1]].data = <<>>

\* a create of a file that held bytes was answered SUCCESS
C36_Witness ==
    \E e \in Handled :
        /\ Created(e)
        /\ e.res.ops[1].hp[1] \in DOMAIN e.before
        /\ e.before[e.res.ops[1].hp[1]].data # <<>>

\* os.Create of the request's handler opened a file in drive.Create
CreateOpened(e) ==
    /\ e.res.route = "command" /\ e.res.command = V_create
    /\ Len(e.res.ops) = 1 /\ Len(e.res.ops[1].hp) = 1
    /\ osCreate(e.before, e.res.ops[1].hp[1]).ok

\* C37: every file handle a drive operation opens (Create, Read, Write) is
\* closed by the time the operation returns, so after any sequence of
\* requests the number of open file handles held by the server equals its
\* value before the sequence
C37_NoHandleLeft ==
    \A e \in Handled : e.res.leak = 0

\* what holds of C37: Read and Write close the file they opened on every
\* return; Create leaves the one it opened
C37_ButCreate ==
    \A e \in Handled : e.res.leak = IF CreateOpened(e) THEN 1 ELSE 0

\* the write handler went as far as calling drive.Write
WriteCalled(e) ==
    /\ e.res.route = "command" /\ e.res.command = V_write
    /\ Len(e.res.ops) = 2 /\ e.res.ops[2].op = "Write"

\* the payload-length line read as consume reads a length line
Base10(q) == ParseInt(q.plen, 10)

\* the number of payload bytes drive.Write took off the stream
Streamed(e) == e.res.rd.pos - PayloadStart(e.conn.q)

\* C31: the write handler interprets the payload-length line as a base-10
\* number exactly as consume does: a line consume would refuse is refused,
\* and the number of payload bytes streamed into the file on the success
\* path is the number consume drains on a rejection path
C31_LengthBase10 ==
    \A e \in Handled :
        WriteCalled(e) =>
            /\ Base10(e.conn.q).ok
            /\ e.res.st = "ok" => Streamed(e) = Base10(e.conn.q).val

\* what holds of C31: the two readings agree on a line of decimal digits
\* that does not start with 0, and on the line 0
C31_PlainDigitsAgree ==
    \A e \in Handled :
        (/\ WriteCalled(e)
         /\ IsDecimal(e.conn.q.plen)
         /\ (e.conn.q.plen[1] # "0" \/ Len(e.conn.q.plen) = 1))
        => (e.res.st = "ok" => Streamed(e) = Base10(e.conn.q).val)

\* a length line of the request is a negative number, as consume or the
\* write handler read it
NegativeLength(q) ==
    \/ ParseInt(q.alen, 10).ok /\ ParseInt(q.alen, 10).val < 0
    \/ ParseInt(q.plen, 10).ok /\ ParseInt(q.plen, 10).val < 0
    \/ ParseInt(q.plen, 0).ok /\ ParseInt(q.plen, 0).val < 0

\* C33: no byte sequence sent by a client makes a worker terminate
\* abnormally: for any request content, including a length line that is
\* negative, the handler returns (with or without an error), the
\* connection is closed, and the worker remains available for the next job
C33_NoAbnormalEnd ==
    /\ alive
    /\ \A e \in Handled : e.res.st \in {"ok", "err"} /\ e.res.closed = 1

\* what holds of C33: the handler returns and the worker goes on for every
\* request without a negative length line; the connection is closed in
\* every case
C33_ButNegativeLength ==
    /\ \A e \in Handled :
          /\ e.res.closed = 1
          /\ e.res.st \in {"ok", "err", "panic"}
          /\ e.res.st = "panic" => NegativeLength(e.conn.q)
    /\ alive <=> \A e \in Handled : e.res.st # "panic"

\* C35: Stop may be called at any moment after Serve has been invoked and
\* always completes without fault or indefinite blocking, including when
\* it runs before Serve has allocated the stop channel or before listen
\* has stored the listener, or when creating the listener failed
C35_StopCompletes ==
    /\ [](stop.pc # "panic")
    /\ (stop.pc # "notcalled") ~> (stop.pc = "returned")

\* what holds of C35: Stop faults exactly when it finds no listener stored
\* (listen has not stored one yet, or tls.Listen failed), and once it has
\* closed a listener it pushes its stop signals without waiting and
\* returns
C35_ButNoListener ==
    /\ [](stop.pc = "panic" => listener = "nil")
    /\ [](stop.pc \in {"push", "returned"} => listener = "closed")
    /\ (stop.pc = "push") ~> (stop.pc = "returned")

\* connection id waits on the job queue
Queued(id) == \E i \in 1..Len(jobs) : jobs[i] = id

\* C34: while the server is running (Stop not called), with at least one
\* worker and handlers that terminate, every connection the accept loop
\* places on the job queue is eventually dequeued and handled by some
\* worker
C34_QueuedIsHandled ==
    \A id \in 1..FairConns :
        Queued(id) ~> (\/ id <= Len(conns) /\ conns[id].handled /\ conns[id].taken = 1
                       \/ stop.pc # "notcalled")

\* every connection of the clients went through the queue and was handled
\* and closed, Stop not called
C34_Witness ==
    /\ stop.pc = "notcalled"
    /\ Len(conns) = FairConns
    /\ \A id \in 1..FairConns :
           conns[id].handled /\ conns[id].taken = 1 /\ conns[id].closed = 1

(***************************************************************************)
(* Two workers handling requests on the same path at the same time.  The  *)
(* handlers are goroutines without any lock around the drive, so the calls *)
(* of package os of one handler interleave with those of the other.        *)
(* readCommand takes the size with drive.Stat, writes the header, SUCCESS  *)
(* and the length line, and only then has drive.Read open the file;        *)
(* drive.Write truncates the file with os.Create and stores the payload    *)
(* afterwards.  The connections of conns carry their request in field c.   *)
(***************************************************************************)
\* the read of file a of drive d
RaceRead == Conn(Request(<<"k">>, <<"a">>, V_read, <<"d">>, <<"a">>, <<>>, <<>>), {})

\* the requests handled next to the read: a write, a write of nothing, a
\* create and a remove of the same path, and a stat of it, a read of it and
\* a write of another path
RaceRivals ==
    {Conn(Request(<<"k">>, <<"a">>, V_write, <<"d">>, <<"a">>, <<>>, <<"x", "y">>), {}),
     Conn(Request(<<"k">>, <<"a">>, V_write, <<"d">>, <<"a">>, <<>>, <<>>), {}),
     Conn(Request(<<"k">>, <<"a">>, V_write, <<"d">>, <<"a">>, <<>>,
                  <<"x", "y", "z", "x", "y">>), {}),
     Conn(Request(<<"k">>, <<"a">>, V_create, <<"d">>, <<"a">>, <<>>, <<>>), {}),
     Conn(Request(<<"k">>, <<"a">>, V_remove, <<"d">>, <<"a">>, <<>>, <<>>), {}),
     Conn(Request(<<"k">>, <<"a">>, V_stat, <<"d">>, <<"a">>, <<>>, <<>>), {}),
     RaceRead,
     Conn(Request(<<"k">>, <<"a">>, V_write, <<"d">>, <<"s", "/", "a">>, <<>>,
                  <<"x", "y">>), {})}

RaceConnState(c) ==
    [c |-> c, out |-> <<>>, handled |-> FALSE, closed |-> 0, taken |-> 0,
     overStop |-> FALSE]

\* a serving server whose accept loop has queued the read and one other
\* request, in either order, for its idle workers
RaceInit ==
    /\ fs = SmallFS
    /\ done = <<>>
    /\ alive = TRUE
    /\ running = TRUE
    /\ stopSignal = 0
    /\ listener = "open"
    /\ serve = [pc |-> "Accept", i |-> NumWorkers, ok |-> TRUE, req |-> 0, ret |-> "none"]
    /\ wk = [w \in 1..NumWorkers |->
                [pc |-> "loop", req |-> 0, res |-> NoResult, early |-> FALSE]]
    /\ stop = [pc |-> "notcalled", i |-> 0, serving |-> FALSE]
    /\ calls = <<>>
    /\ jobs = <<1, 2>>
    /\ \E rival \in RaceRivals :
          \/ conns = <<RaceConnState(RaceRead), RaceConnState(rival)>>
          \/ conns = <<RaceConnState(rival), RaceConnState(RaceRead)>>

\* the handler's result says that readCommand went as far as drive.Read
ReadStarted(r) ==
    /\ r.route = "command" /\ r.command = V_read
    /\ Len(r.ops) = 2 /\ r.ops[2].op = "Read"

\* the handler's result says that writeCommand went as far as the os.Create
\* of drive.Write, and os.Create opened the file
WriteStarted(r, f) ==
    /\ r.route = "command" /\ r.command = V_write
    /\ Len(r.ops) = 2 /\ r.ops[2].op = "Write"
    /\ Len(r.ops[2].hp) = 1
    /\ osCreate(f, r.ops[2].hp[1]).ok

\* what readCommand has written when it calls drive.Read
ReadHeader(r, f, path) ==
    sendString(sendString(sendString(<<>>, Header), S_SUCCESS),
               FormatInt(drive_Stat(r.ops[1].root, f, path).info.size))

\* worker: s.handleRequest(req), up to the handler's return, or up to the
\* call of drive.Read in readCommand, or up to the os.Create of drive.Write
race_handleRequest(w) ==
    /\ alive
    /\ wk[w].pc = "handleRequest"
    /\ LET r == handleRequest(conns[wk[w].req].c, fs)
       IN  IF ReadStarted(r)
           THEN /\ wk' = [wk EXCEPT ![w].pc = "Read",
                                    ![w].res = [r EXCEPT !.out =
                                        ReadHeader(r, fs, conns[wk[w].req].c.q.path)]]
                /\ conns' = [conns EXCEPT ![wk[w].req].out = wk'[w].res.out]
                /\ UNCHANGED fs
           ELSE IF WriteStarted(r, fs)
           THEN /\ wk' = [wk EXCEPT ![w].pc = "Write", ![w].res = r]
                /\ fs' = osCreate(fs, r.ops[2].hp[1]).fs
                /\ UNCHANGED conns
           ELSE /\ wk' = [wk EXCEPT ![w].pc = "return", ![w].res = r]
                /\ fs' = r.fs
                /\ conns' = [conns EXCEPT ![wk[w].req].out = r.out,
                                          ![wk[w].req].handled = TRUE]
    /\ UNCHANGED <<jobs, done, running, stopSignal, listener, serve, stop, calls, alive>>

\* readCommand: return drive.Read(path, r.writer), on the file as it is now
race_Read(w) ==
    /\ alive
    /\ wk[w].pc = "Read"
    /\ LET d == drive_Read(wk[w].res.ops[1].root, fs, conns[wk[w].req].c.q.path)
       IN  /\ wk' = [wk EXCEPT ![w].pc = "return",
                               ![w].res = [wk[w].res EXCEPT
                                   !.st = IF d.ok THEN "ok" ELSE "err",
                                   !.out = IF d.ok THEN @ \o d.out ELSE @]]
           /\ conns' = [conns EXCEPT ![wk[w].req].out = wk'[w].res.out,
                                     ![wk[w].req].handled = TRUE]
    /\ UNCHANGED <<fs, jobs, done, running, stopSignal, listener, serve, stop, calls, alive>>

\* drive.Write after its os.Create: the loop, the flush and the response
race_Write(w) ==
    /\ alive
    /\ wk[w].pc = "Write"
    /\ LET r == handleRequest(conns[wk[w].req].c, fs)
       IN  /\ wk' = [wk EXCEPT ![w].pc = "return", ![w].res = r]
           /\ fs' = r.fs
           /\ conns' = [conns EXCEPT ![wk[w].req].out = r.out,
                                     ![wk[w].req].handled = TRUE]
    /\ UNCHANGED <<jobs, done, running, stopSignal, listener, serve, stop, calls, alive>>

RaceNext ==
    \E w \in 1..NumWorkers :
        \/ worker_loop(w)
        \/ worker_job(w)
        \/ race_handleRequest(w)
        \/ race_Read(w)
        \/ race_Write(w)
        \/ worker_return(w)

RaceSpec == RaceInit /\ [][RaceNext]_vars

\* the response is a success response that announces n bytes and carries n
BodyAsAnnounced(out) ==
    \E n \in 0..(2 * MaxPayload + 4) :
        Bind(sendString(sendString(sendString(<<>>, Header), S_SUCCESS), FormatInt(n)),
             LAMBDA h : Len(out) = Len(h) + n /\ HasPrefix(out, h))

\* the connection handled next to connection id
Rival(id) == conns[3 - id].c

\* the request changes file a of drive d
ChangesTheFile(c) ==
    /\ c.q.verb \in {V_write, V_create, V_remove}
    /\ c.q.path = RaceRead.q.path

\* C32: a read handled while another worker handles a write, a create or a
\* remove of the same path still answers, when it answers SUCCESS, with as
\* many bytes as it announced.
C32_ReadAsAnnounced ==
    \A id \in 1..Len(conns) :
        conns[id].c = RaceRead /\ conns[id].handled /\ IsSuccess(conns[id].out)
            => BodyAsAnnounced(conns[id].out)

\* What holds: the read succeeds with the bytes it announced whenever the
\* other request leaves the file alone, and a response with other bytes than
\* announced means that the other handler has at least truncated the file.
C32_ButSamePath ==
    \A id \in 1..Len(conns) :
        /\ conns[id].c = RaceRead /\ conns[id].handled /\ ~ChangesTheFile(Rival(id))
               => IsSuccess(conns[id].out) /\ BodyAsAnnounced(conns[id].out)
        /\ conns[id].c = RaceRead /\ conns[id].handled /\ IsSuccess(conns[id].out)
             /\ ~BodyAsAnnounced(conns[id].out)
               => \/ conns[3 - id].handled
                  \/ \E w \in 1..NumWorkers : wk[w].req = 3 - id /\ wk[w].pc = "Write"

=============================================================================
